---------------------------- MODULE Spec2Model ----------------------------
(***************************************************************************)
(* Model of transmission-telegram (v1.4, src/unnamed/part_000): the        *)
(* message dispatcher (send), the access gate (masterSlice), the command   *)
(* router (main) and the live-refresh loops of head, tail, active, info    *)
(* and speed.                                                              *)
(***************************************************************************)
EXTENDS Integers, Sequences, FiniteSets, TLC

(***************************************************************************)
(* Bounds.  MaxMsgRunes stands for telegram's 4096 characters per message  *)
(* (part_000:1451) and duration for the 10 live ticks (part_000:133); both *)
(* are scaled down so that every text and every tick pattern is explored.  *)
(***************************************************************************)
MaxMsgRunes == 3

MaxTextRunes == 6

MaxChunks == 4

MaxMasters == 1

MaxHandleLen == 2

MaxTorrents == 2

MaxUpdates == 1

\* the updates main takes from the channel when one message follows another
MaxQueued == 2

duration == 2

VARIABLES
    \* ---- one call of send(text, chatID, markdown) ----
    orig,          \* the text passed to send
    text,          \* send's local: the text not yet handed to the platform
    msgRuneCount,  \* send's local: utf8.RuneCountInString(text)
    sendPc,        \* "typing", "LenCheck", "done", "panic"
    handed,        \* the messages handed to Bot.Send, in order: [text, id]
    nextMsgID,     \* the platform's next message identifier
    ret,           \* the value send returned (0 until it returns)
    \* ---- the access gate ----
    flags,         \* the -master flags as given on the command line
    Masters,       \* the global Masters after flag parsing and init()
    authFrom,      \* the user name last passed to Masters.Contains
    authOK,        \* what Masters.Contains returned for it
    authDone,      \* Masters.Contains has been called
    \* ---- the process: configuration, router, handlers, collaborators ----
    mgr,           \* the collections the manager holds in the course of the run
    sortMethod,    \* the order the client was last told to list torrents in
    NoLive,        \* flag -no-live
    TransLogFile,  \* flag -transmission-logfile is set
    chatID,        \* global chatID: where completion notices go
    nUpdates,      \* updates main has taken from the Updates channel
    lastUpdate,    \* the update main took last
    tasks,         \* the goroutines started so far, in order of their start
    logs,          \* entries written to the logger
    botCalls,      \* calls of Bot.Send (typing actions, messages, edits)
    mgrCalls,      \* calls of the transmission client
    panicked,      \* a goroutine panicked: the process is gone
    \* ---- the start of the process ----
    BotToken,      \* the global BotToken
    TT_BOTT,       \* the environment variable TT_BOTT
    initPc,        \* where the start is: "flags", "client", "telegram", "main", "exit"
    usage,         \* the usage message was printed
    notices        \* the chats the completion notices were sent to, in order

sendVars == <<orig, text, msgRuneCount, sendPc, handed, nextMsgID, ret>>

authVars == <<flags, Masters, authFrom, authOK, authDone>>

procVars == <<mgr, sortMethod, NoLive, TransLogFile, chatID, nUpdates, lastUpdate, tasks, logs,
              botCalls, mgrCalls, panicked>>

bootVars == <<BotToken, TT_BOTT, initPc, usage, notices>>

vars == <<sendVars, authVars, procVars, bootVars>>

(***************************************************************************)
(* Texts are Go strings: sequences of bytes holding UTF-8.  The model's    *)
(* alphabet has the newline (one byte, 10), an ASCII letter (one byte) and *)
(* a two-byte rune (195 169).                                              *)
(***************************************************************************)
NL == 10

Runes == {"nl", "a", "e2"}

EncodeRune(r) ==
    IF r = "nl" THEN <<NL>> ELSE IF r = "a" THEN <<97>> ELSE <<195, 169>>

RECURSIVE Encode(_)
Encode(rs) == IF rs = <<>> THEN <<>> ELSE EncodeRune(Head(rs)) \o Encode(Tail(rs))

\* a UTF-8 continuation byte (10xxxxxx)
IsContinuation(b) == b >= 128 /\ b < 192

\* utf8.RuneCountInString on valid UTF-8: the bytes that start a rune
RuneCountInString(s) == Len(SelectSeq(s, LAMBDA b : ~IsContinuation(b)))

\* Go's s[lo:hi] and s[lo:] on bytes, with Go's 0-based offsets
Slice(s, lo, hi) == SubSeq(s, lo + 1, hi)

SliceFrom(s, lo) == SubSeq(s, lo + 1, Len(s))

Texts == { Encode(rs) : rs \in UNION { [1..k -> Runes] : k \in 0..MaxTextRunes } }

(***************************************************************************)
(* send, part_000:1441-1484.                                               *)
(***************************************************************************)
\* line 1450: stop := 4095
StopStart == MaxMsgRunes - 1

ExceedsLimit_OffByOne(n) == n > MaxMsgRunes + 1

\* line 1451: if msgRuneCount > 4096
ExceedsLimit(n) == n > MaxMsgRunes

\* lines 1452-1454: for text[stop] != 10 { stop-- }.  -1 stands for the
\* runtime panic of text[stop] with stop outside 0..len(text)-1.
RECURSIVE FindStop(_, _)
FindStop(s, stop) ==
    IF stop < 0 \/ stop >= Len(s) THEN -1
    ELSE IF s[stop + 1] = NL THEN stop
    ELSE FindStop(s, stop - 1)

\* line 1466: text = text[stop:]
RestAfter(s, stop) == SliceFrom(s, stop)

SendReturn_First(ids) == ids[1]

\* line 1483: return resp.MessageID (resp of the last Bot.Send of the call)
SendReturn(ids) == ids[Len(ids)]

\* Bot.Send(msg): the platform accepts the message and numbers it, or the
\* call fails and resp is the zero Message (MessageID 0).
Hand(chunk, ok) ==
    /\ handed' = Append(handed, [text |-> chunk, id |-> IF ok THEN nextMsgID ELSE 0])
    /\ nextMsgID' = IF ok THEN nextMsgID + 1 ELSE nextMsgID

SendStart ==
    /\ orig \in Texts
    /\ text = orig
    /\ msgRuneCount = 0
    /\ sendPc = "typing"
    /\ handed = <<>>
    /\ nextMsgID = 1
    /\ ret = 0

\* lines 1443-1448: the typing action (its result is ignored), the rune count
SendTyping ==
    /\ sendPc = "typing"
    /\ msgRuneCount' = RuneCountInString(text)
    /\ sendPc' = "LenCheck"
    /\ UNCHANGED <<orig, text, handed, nextMsgID, ret>>
    /\ UNCHANGED <<authVars, procVars, bootVars>>

\* lines 1449-1468: one turn of the LenCheck loop that sends a chunk
SendChunk ==
    /\ sendPc = "LenCheck"
    /\ ExceedsLimit(msgRuneCount)
    /\ Len(handed) < MaxChunks
    /\ LET stop == FindStop(text, StopStart) IN
         /\ stop >= 0
         /\ \E ok \in BOOLEAN : Hand(Slice(text, 0, stop), ok)
         /\ text' = RestAfter(text, stop)
         /\ msgRuneCount' = RuneCountInString(text')
    /\ UNCHANGED <<orig, sendPc, ret>>
    /\ UNCHANGED <<authVars, procVars, bootVars>>

\* lines 1452-1453: the scan runs below index 0: index out of range
SendPanic ==
    /\ sendPc = "LenCheck"
    /\ ExceedsLimit(msgRuneCount)
    /\ FindStop(text, StopStart) < 0
    /\ sendPc' = "panic"
    /\ UNCHANGED <<orig, text, msgRuneCount, handed, nextMsgID, ret>>
    /\ UNCHANGED <<authVars, procVars, bootVars>>

\* lines 1471-1483: the last (or only) message, whose id is returned
SendLast ==
    /\ sendPc = "LenCheck"
    /\ ~ExceedsLimit(msgRuneCount)
    /\ \E ok \in BOOLEAN : Hand(text, ok)
    /\ ret' = SendReturn([i \in 1..Len(handed') |-> handed'[i].id])
    /\ sendPc' = "done"
    /\ UNCHANGED <<orig, text, msgRuneCount>>
    /\ UNCHANGED <<authVars, procVars, bootVars>>

SendNext == SendTyping \/ SendChunk \/ SendPanic \/ SendLast

\* transmission.SortID, the order of a client that was told nothing
SortID == [field |-> <<"i", "d">>, rev |-> FALSE]

\* the start is over: the token came with the -token flag, the three init
\* functions returned and main runs
Started ==
    /\ BotToken = <<"k", "1">> /\ TT_BOTT = <<>> /\ initPc = "main"
    /\ usage = FALSE /\ notices = <<>>

\* the process variables where no process is modelled
ProcIdle ==
    /\ Started
    /\ mgr = {} /\ sortMethod = SortID /\ NoLive = FALSE /\ TransLogFile = FALSE /\ chatID = 0 /\ nUpdates = 0
    /\ lastUpdate = <<>> /\ tasks = <<>> /\ logs = 0 /\ botCalls = 0
    /\ mgrCalls = 0 /\ panicked = FALSE

SendInit ==
    /\ SendStart
    /\ flags = <<>> /\ Masters = <<>> /\ authFrom = <<>> /\ authOK = FALSE
    /\ authDone = FALSE
    /\ ProcIdle

SpecSend == SendInit /\ [][SendNext]_vars

(***************************************************************************)
(* Strings of the router and of the access gate are sequences of           *)
(* one-character strings.                                                  *)
(***************************************************************************)
UpperCase == <<"A", "B", "C", "D", "E", "F", "G", "H", "I", "J", "K", "L", "M",
               "N", "O", "P", "Q", "R", "S", "T", "U", "V", "W", "X", "Y", "Z">>

LowerCase == <<"a", "b", "c", "d", "e", "f", "g", "h", "i", "j", "k", "l", "m",
               "n", "o", "p", "q", "r", "s", "t", "u", "v", "w", "x", "y", "z">>

ToLowerChar(c) ==
    IF \E i \in 1..26 : UpperCase[i] = c
    THEN LowerCase[CHOOSE i \in 1..26 : UpperCase[i] = c]
    ELSE c

ToLower_AsTyped(s) == s

\* strings.ToLower
ToLower(s) == [i \in 1..Len(s) |-> ToLowerChar(s[i])]

ToUpperChar(c) ==
    IF \E i \in 1..26 : LowerCase[i] = c
    THEN UpperCase[CHOOSE i \in 1..26 : LowerCase[i] = c]
    ELSE c

\* strings.Replace(s, "@", "", -1): every "@" goes
RemoveAt(s) == SelectSeq(s, LAMBDA c : c # "@")

(***************************************************************************)
(* masterSlice and the flag handling of init, part_000:145-207.            *)
(***************************************************************************)
\* lines 153-156: masterSlice.Set
MasterSet(masters, master) == Append(masters, ToLower(master))

ParseMasters(fs) ==
    LET RECURSIVE Parse(_, _)
        Parse(acc, rest) ==
            IF rest = <<>> THEN acc ELSE Parse(MasterSet(acc, Head(rest)), Tail(rest))
    IN  Parse(<<>>, fs)

\* lines 204-207: make sure that the handler doesn't contain @
StripMasters(masters) == [i \in 1..Len(masters) |-> RemoveAt(masters[i])]

Contains_CaseSensitive(masters, master) ==
    \E i \in 1..Len(masters) : masters[i] = master

\* lines 159-167: masterSlice.Contains
Contains(masters, master) ==
    LET m == ToLower(master) IN \E i \in 1..Len(masters) : masters[i] = m

AuthChars == {"@", "b", "B"}

Handles == UNION { [1..k -> AuthChars] : k \in 0..MaxHandleLen }

\* The state after init: at least one -master flag was given (line 198).
AuthInit ==
    /\ flags \in UNION { [1..k -> Handles] : k \in 1..MaxMasters }
    /\ Masters = StripMasters(ParseMasters(flags))
    /\ authFrom = <<>>
    /\ authOK = FALSE
    /\ authDone = FALSE
    /\ orig = <<>> /\ text = <<>> /\ msgRuneCount = 0 /\ sendPc = "idle"
    /\ handed = <<>> /\ nextMsgID = 1 /\ ret = 0
    /\ ProcIdle

\* line 303: Masters.Contains(update.Message.From.UserName)
AuthCheck ==
    /\ \E x \in Handles :
         /\ authFrom' = x
         /\ authOK' = Contains(Masters, x)
         /\ authDone' = TRUE
    /\ UNCHANGED <<flags, Masters, sendVars, procVars, bootVars>>

SpecAuth == AuthInit /\ [][AuthCheck]_vars

(***************************************************************************)
(* The transmission client.  A query answers with the manager's current    *)
(* collection, which may be any, or fails.  Beside the error a failed call *)
(* returns no torrents; GetTorrent returns a nil pointer or a pointer to   *)
(* an empty Torrent, the client library deciding which.                    *)
(***************************************************************************)
\* the sizes of the torrents: 10 bytes for torrent 1, 50 for torrent 2, then 30,
\* 31, ...
SizeOf(k) == IF k = 1 THEN 10 ELSE IF k = 2 THEN 50 ELSE 27 + k

RECURSIVE CollectionOf(_, _)
CollectionOf(p, k) ==
    IF k > MaxTorrents THEN <<>>
    ELSE (IF p[k] = "absent" THEN <<>>
          ELSE <<[id |-> k, rate |-> IF p[k] = "busy" THEN 1 ELSE 0, size |-> SizeOf(k)]>>)
         \o CollectionOf(p, k + 1)

\* the collections, in the client's default order (ascending id)
Snapshots == { CollectionOf(p, 1) : p \in [1..MaxTorrents -> {"absent", "idle", "busy"}] }

\* the fields sort knows, lines 834-888
SortFields == {
    <<"i", "d">>,
    <<"n", "a", "m", "e">>,
    <<"a", "g", "e">>,
    <<"s", "i", "z", "e">>,
    <<"p", "r", "o", "g", "r", "e", "s", "s">>,
    <<"d", "o", "w", "n", "s", "p", "e", "e", "d">>,
    <<"u", "p", "s", "p", "e", "e", "d">>,
    <<"d", "o", "w", "n", "l", "o", "a", "d">>,
    <<"u", "p", "l", "o", "a", "d">>,
    <<"r", "a", "t", "i", "o">>}

\* what a sort method compares.  The torrents of the model differ in id, size and
\* rate; their names, ages and counters grow with their ids.
KeyOf(t, field) ==
    IF field = <<"s", "i", "z", "e">> THEN t.size
    ELSE IF field \in {<<"d", "o", "w", "n", "s", "p", "e", "e", "d">>, <<"u", "p", "s", "p", "e", "e", "d">>} THEN t.rate
    ELSE t.id

\* the collection as the client lists it under a sort method: ascending by the
\* key, descending when reversed, equal keys in id order
Sorted(ts, method) ==
    SortSeq(ts, LAMBDA a, b :
        LET ka == KeyOf(a, method.field)
            kb == KeyOf(b, method.field)
        IN  IF ka = kb THEN a.id < b.id
            ELSE IF method.rev THEN ka > kb ELSE ka < kb)

\* Client.GetTorrents()
GetTorrentsResults ==
    { [ok |-> TRUE, torrents |-> Sorted(ts, sortMethod)] : ts \in mgr }
        \cup { [ok |-> FALSE, torrents |-> <<>>] }

\* Client.GetTorrent(id): a pointer is a sequence of at most one torrent; the
\* call fails when the manager has no such torrent or cannot be reached
GetTorrentResults(id) ==
    { [ok |-> TRUE, torrents |-> <<ck[1][ck[2]]>>] :
          ck \in { x \in mgr \X (1..MaxTorrents) :
                     x[2] <= Len(x[1]) /\ x[1][x[2]].id = id } }
        \cup { [ok |-> FALSE, torrents |-> <<>>],
                [ok |-> FALSE, torrents |-> <<[id |-> 0, rate |-> 0, size |-> 0]>>] }

\* the aggregate rate of a collection
TotalRate(ts) == IF \E k \in 1..Len(ts) : ts[k].rate > 0 THEN 1 ELSE 0

\* Client.GetStats(): the aggregate rate, shown as the rate of an item 0
GetStatsResults ==
    { [ok |-> TRUE, torrents |-> <<[id |-> 0, rate |-> TotalRate(ts)]>>] : ts \in mgr }
        \cup { [ok |-> FALSE, torrents |-> <<>>] }

(***************************************************************************)
(* Rendering.  A rendered text is the sequence of its item blocks; a block *)
(* shows the item's id (with its other fields) and its transfer rate.      *)
(***************************************************************************)
\* the dashes put in place of the rates
Placeholder == -1

Block(t) == [id |-> t.id, rate |-> t.rate]

FrozenBlock(t) == [id |-> t.id, rate |-> Placeholder]

\* lines 470-473, 510-512: make sure that we stay in the boundaries
Clamp(n, len) == IF n <= 0 \/ n > len THEN len ELSE n

\* lines 476-482: torrents[:n]
RenderHead(ts, n) == [k \in 1..n |-> Block(ts[k])]

RenderTail_FromFront(ts, n) == [k \in 1..n |-> Block(ts[k])]

\* lines 557-563: torrents[len(torrents)-n:]
RenderTail(ts, n) == [k \in 1..n |-> Block(ts[Len(ts) - n + k])]

IsActive(t) == t.rate > 0

\* lines 722-732, 757-766
RenderActive(ts) ==
    LET act == SelectSeq(ts, IsActive) IN [k \in 1..Len(act) |-> Block(act[k])]

\* lines 778-787
RenderActiveFrozen(ts) ==
    LET act == SelectSeq(ts, IsActive) IN [k \in 1..Len(act) |-> FrozenBlock(act[k])]

RenderList(cmd, ts, n) ==
    IF cmd = "head" THEN RenderHead(ts, n)
    ELSE IF cmd = "tail" THEN RenderTail(ts, n)
    ELSE RenderActive(ts)

(***************************************************************************)
(* strings.Split(s, " ") and strconv.Atoi                                  *)
(***************************************************************************)
RECURSIVE SplitFrom(_, _)
SplitFrom(s, cur) ==
    IF s = <<>> THEN <<cur>>
    ELSE IF Head(s) = " " THEN <<cur>> \o SplitFrom(Tail(s), <<>>)
    ELSE SplitFrom(Tail(s), Append(cur, Head(s)))

\* strings.Split(s, " "): a token between every two spaces, empty ones too
Split(s) == SplitFrom(s, <<>>)

Digits == <<"0", "1", "2", "3", "4", "5", "6", "7", "8", "9">>

(***************************************************************************)
(* Markdown.                                                               *)
(***************************************************************************)
\* the tracker and the name of torrent k are "t<k>" and "n<k>_": a name holds
\* a character that markdown reserves
Trackers(tor) == <<"t", Digits[tor.id + 1]>>

Name(tor) == <<"n", Digits[tor.id + 1], "_">>

\* the characters markdown reserves ("^" stands for the backquote)
Reserved == {"*", "[", "]", "_", "^"}

\* lines 137-141: the table of mdReplacer ("o" stands for the bullet)
ReplaceChar(c) ==
    IF c = "*" THEN "o"
    ELSE IF c = "[" THEN "("
    ELSE IF c = "]" THEN ")"
    ELSE IF c = "_" THEN "-"
    ELSE IF c = "^" THEN "'"
    ELSE c

\* mdReplacer.Replace(s)
Replace(s) == [k \in 1..Len(s) |-> ReplaceChar(s[k])]

\* lines 477, 558, 726: the names a rendered list embeds, each through
\* mdReplacer
RECURSIVE RenderedNames(_)
RenderedNames(blocks) ==
    IF blocks = <<>> THEN <<>>
    ELSE Replace(Name(Head(blocks))) \o RenderedNames(Tail(blocks))

\* the third argument of send, and the ParseMode of the edits: the messages
\* sent with markdown are the lists of head, tail and active (lines 489, 570,
\* 738), the detail of info (1105), stats (1308), help and version (388,
\* 1437), and list's "No tracker matches" (439)
Markdown(cmd, tag) ==
    \/ cmd \in {"head", "tail", "active"} /\ tag = "render"
    \/ cmd = "info" /\ tag = "info"
    \/ cmd = "stats" /\ tag = "report"
    \/ cmd \in {"help", "version"} /\ tag = "static"
    \/ cmd = "list" /\ tag = "none"

IsDigit(c) == \E d \in 1..10 : Digits[d] = c

DigitVal(c) == (CHOOSE d \in 1..10 : Digits[d] = c) - 1

RECURSIVE DecimalVal(_, _)
DecimalVal(s, acc) ==
    IF s = <<>> THEN acc ELSE DecimalVal(Tail(s), 10 * acc + DigitVal(Head(s)))

\* strconv.Atoi: an optional sign and at least one digit, nothing else
Atoi(s) ==
    LET body == IF s # <<>> /\ Head(s) \in {"+", "-"} THEN Tail(s) ELSE s
    IN  IF body = <<>> \/ \E i \in 1..Len(body) : ~IsDigit(body[i])
        THEN [ok |-> FALSE, val |-> 0]
        ELSE [ok |-> TRUE,
              val |-> IF Head(s) = "-" THEN 0 - DecimalVal(body, 0) ELSE DecimalVal(body, 0)]

(***************************************************************************)
(* main, part_000:295-403.                                                 *)
(***************************************************************************)
\* lines 317-401: the cases of main's switch, in order
Cases == <<
    [handler |-> "list", names |-> {<<"l", "i", "s", "t">>, <<"/", "l", "i", "s", "t">>, <<"l", "i">>, <<"/", "l", "i">>}],
    [handler |-> "head", names |-> {<<"h", "e", "a", "d">>, <<"/", "h", "e", "a", "d">>, <<"h", "e">>, <<"/", "h", "e">>}],
    [handler |-> "tail", names |-> {<<"t", "a", "i", "l">>, <<"/", "t", "a", "i", "l">>, <<"t", "a">>, <<"/", "t", "a">>}],
    [handler |-> "downs", names |-> {<<"d", "o", "w", "n", "s">>, <<"/", "d", "o", "w", "n", "s">>, <<"d", "l">>, <<"/", "d", "l">>}],
    [handler |-> "seeding", names |-> {<<"s", "e", "e", "d", "i", "n", "g">>, <<"/", "s", "e", "e", "d", "i", "n", "g">>, <<"s", "d">>, <<"/", "s", "d">>}],
    [handler |-> "paused", names |-> {<<"p", "a", "u", "s", "e", "d">>, <<"/", "p", "a", "u", "s", "e", "d">>, <<"p", "a">>, <<"/", "p", "a">>}],
    [handler |-> "checking", names |-> {<<"c", "h", "e", "c", "k", "i", "n", "g">>, <<"/", "c", "h", "e", "c", "k", "i", "n", "g">>, <<"c", "h">>, <<"/", "c", "h">>}],
    [handler |-> "active", names |-> {<<"a", "c", "t", "i", "v", "e">>, <<"/", "a", "c", "t", "i", "v", "e">>, <<"a", "c">>, <<"/", "a", "c">>}],
    [handler |-> "errors", names |-> {<<"e", "r", "r", "o", "r", "s">>, <<"/", "e", "r", "r", "o", "r", "s">>, <<"e", "r">>, <<"/", "e", "r">>}],
    [handler |-> "sort", names |-> {<<"s", "o", "r", "t">>, <<"/", "s", "o", "r", "t">>, <<"s", "o">>, <<"/", "s", "o">>}],
    [handler |-> "trackers", names |-> {<<"t", "r", "a", "c", "k", "e", "r", "s">>, <<"/", "t", "r", "a", "c", "k", "e", "r", "s">>, <<"t", "r">>, <<"/", "t", "r">>}],
    [handler |-> "add", names |-> {<<"a", "d", "d">>, <<"/", "a", "d", "d">>, <<"a", "d">>, <<"/", "a", "d">>}],
    [handler |-> "search", names |-> {<<"s", "e", "a", "r", "c", "h">>, <<"/", "s", "e", "a", "r", "c", "h">>, <<"s", "e">>, <<"/", "s", "e">>}],
    [handler |-> "latest", names |-> {<<"l", "a", "t", "e", "s", "t">>, <<"/", "l", "a", "t", "e", "s", "t">>, <<"l", "a">>, <<"/", "l", "a">>}],
    [handler |-> "info", names |-> {<<"i", "n", "f", "o">>, <<"/", "i", "n", "f", "o">>, <<"i", "n">>, <<"/", "i", "n">>}],
    [handler |-> "stop", names |-> {<<"s", "t", "o", "p">>, <<"/", "s", "t", "o", "p">>, <<"s", "p">>, <<"/", "s", "p">>}],
    [handler |-> "start", names |-> {<<"s", "t", "a", "r", "t">>, <<"/", "s", "t", "a", "r", "t">>, <<"s", "t">>, <<"/", "s", "t">>}],
    [handler |-> "check", names |-> {<<"c", "h", "e", "c", "k">>, <<"/", "c", "h", "e", "c", "k">>, <<"c", "k">>, <<"/", "c", "k">>}],
    [handler |-> "stats", names |-> {<<"s", "t", "a", "t", "s">>, <<"/", "s", "t", "a", "t", "s">>, <<"s", "a">>, <<"/", "s", "a">>}],
    [handler |-> "speed", names |-> {<<"s", "p", "e", "e", "d">>, <<"/", "s", "p", "e", "e", "d">>, <<"s", "s">>, <<"/", "s", "s">>}],
    [handler |-> "count", names |-> {<<"c", "o", "u", "n", "t">>, <<"/", "c", "o", "u", "n", "t">>, <<"c", "o">>, <<"/", "c", "o">>}],
    [handler |-> "del", names |-> {<<"d", "e", "l">>, <<"/", "d", "e", "l">>}],
    [handler |-> "deldata", names |-> {<<"d", "e", "l", "d", "a", "t", "a">>, <<"/", "d", "e", "l", "d", "a", "t", "a">>}],
    [handler |-> "help", names |-> {<<"h", "e", "l", "p">>, <<"/", "h", "e", "l", "p">>}],
    [handler |-> "version", names |-> {<<"v", "e", "r", "s", "i", "o", "n">>, <<"/", "v", "e", "r", "s", "i", "o", "n">>}],
    [handler |-> "receiveTorrent", names |-> {<<>>}]
>>

Resolve_UnknownIsList(command) ==
    LET hit == { k \in 1..Len(Cases) : command \in Cases[k].names } IN
    IF hit = {} THEN "list"
    ELSE Cases[CHOOSE k \in hit : \A j \in hit : k <= j].handler

\* the handler the switch starts for a command: the first case that names it,
\* or the default case
Resolve(command) ==
    IF \E k \in 1..Len(Cases) : command \in Cases[k].names
    THEN Cases[CHOOSE k \in 1..Len(Cases) :
                   /\ command \in Cases[k].names
                   /\ \A j \in 1..(k - 1) : command \notin Cases[j].names].handler
    ELSE "default"

\* a goroutine: its handler, its parameters, its locals, and what it did so far
NewTask(cmd, chat, tokens) ==
    [cmd |-> cmd, chat |-> chat, tokens |-> tokens, pc |-> "start",
     text |-> <<>>,      \* the text of the message the goroutine was started for
     doc |-> FALSE,      \* that message carries a document
     failed |-> FALSE,   \* the first query of the manager returned an error
     nothing |-> FALSE,  \* the first render had no torrent to show
     out |-> <<>>,       \* the messages passed to send: what they say, the
                         \* argument they are about, the id send returned
     queries |-> 0,      \* calls of the transmission client by this goroutine
     view |-> <<>>,      \* the ids of the torrents in the list it sent
     n |-> 0, tid |-> 0, msgID |-> 0, i |-> 0, torrents |-> <<>>,
     live |-> FALSE,     \* the live loop was entered
     replies |-> 0,      \* messages passed to send
     edits |-> 0,        \* edits issued by the ticks of the live loop
     fails |-> 0,        \* ticks whose query failed
     empties |-> 0,      \* ticks of head and tail whose query returned no torrent
     frozen |-> 0,       \* edits with the rates replaced by dashes
     lastGood |-> <<>>,  \* what the last query that succeeded returned
     lastEdit |-> <<>>]  \* the text of the last edit issued

Bob == <<"B", "o", "b">>

Eve == <<"e", "v", "e">>

\* the texts of the messages main receives
RouterTexts == {
    <<"h", "e", "a", "d">>,
    <<"H", "E", " ", "1">>,
    <<"/", "t", "a", " ", "1">>,
    <<"a", "c">>,
    <<"s", "s">>,
    <<"i", "n", " ", "1">>,
    <<"n", "o", "p", "e">>}

\* the texts of the commands followed on their own
LiveTexts == {
    <<"h", "e", "a", "d">>,
    <<"H", "E", " ", "1">>,
    <<"h", "e", " ", "x">>,
    <<"h", "e", " ", "-", "1">>,
    <<"t", "a", "i", "l">>,
    <<"/", "t", "a", " ", "1">>,
    <<"a", "c">>,
    <<"i", "n", "f", "o", " ", "1", " ", "2">>,
    <<"i", "n", " ", "x", " ", "2">>,
    <<"i", "n">>,
    <<"i", "n", " ", "9">>,
    <<"s", "s">>,
    <<"n", "o", "p", "e">>,
    <<>>,
    <<"s", "o">>,
    <<"s", "o", " ", "r", "e", "v">>,
    <<"s", "o", " ", "R", "E", "V", " ", "s", "i", "z", "e">>,
    <<"s", "o", " ", "s", "i", "z", "e">>,
    <<"s", "o", " ", "x">>,
    <<"l", "i">>,
    <<"l", "i", " ", "T", "1">>,
    <<"l", "i", " ", "(">>,
    <<"l", "i", " ", "_">>,
    <<"l", "a">>,
    <<"l", "a", " ", "1">>,
    <<"l", "a", " ", "x">>,
    <<"l", "a", " ", "0">>,
    <<"a", "d">>,
    <<"a", "d", " ", "u", " ", "u">>,
    <<"s", "p">>,
    <<"s", "p", " ", "a", "l", "l">>,
    <<"s", "p", " ", "x", " ", "1">>,
    <<"s", "t", " ", "1">>,
    <<"c", "k", " ", "a", "l", "l">>,
    <<"d", "e", "l">>,
    <<"d", "e", "l", " ", "1", " ", "x">>,
    <<"d", "e", "l", "d", "a", "t", "a", " ", "x">>,
    <<"d", "e", "l", "d", "a", "t", "a", " ", "2">>,
    <<"d", "l">>,
    <<"s", "a">>,
    <<"c", "o">>,
    <<"s", "d">>,
    <<"p", "a">>,
    <<"c", "h">>,
    <<"e", "r">>,
    <<"t", "r">>,
    <<"s", "e">>,
    <<"s", "e", " ", "n", "1">>,
    <<"s", "e", " ", "(">>,
    <<"h", "e", "l", "p">>,
    <<"/", "v", "e", "r", "s", "i", "o", "n">>}

\* what the Updates channel can deliver: an update without a message (an
\* edited message), or a message of a user in that user's chat
UpdatesOf(texts) ==
    LET Msgs == { x \in texts \X BOOLEAN : x[2] => x[1] = <<>> }   \* text, document
        From(who, chat) ==
            { [isMsg |-> TRUE, from |-> who, chat |-> chat, text |-> x[1], doc |-> x[2]] :
                  x \in Msgs }
    IN  { [isMsg |-> FALSE, from |-> Bob, chat |-> 10, text |-> <<>>, doc |-> FALSE] }
            \cup From(Bob, 10) \cup From(Eve, 20)

IsMaster_Anyone(from) == TRUE

\* line 303: Masters.Contains(update.Message.From.UserName)
IsMaster(from) == Contains(Masters, from)

\* the state after the three init functions: the flags are parsed, both
\* collaborators answered
FlagsInit ==
    /\ flags = << <<"@", "B", "o", "b">> >>
    /\ Masters = StripMasters(ParseMasters(flags))
    /\ authFrom = <<>> /\ authOK = FALSE /\ authDone = FALSE
    /\ Started
    /\ NoLive \in BOOLEAN
    /\ TransLogFile \in BOOLEAN
    /\ logs = 0
    /\ botCalls = 0
    /\ mgrCalls = 0
    /\ panicked = FALSE
    /\ orig = <<>> /\ text = <<>> /\ msgRuneCount = 0 /\ sendPc = "idle"
    /\ handed = <<>> /\ nextMsgID = 1 /\ ret = 0

\* the client lists by id until a sort command tells it otherwise
ConfigInit == FlagsInit /\ sortMethod = SortID

\* nothing was received yet; the manager keeps one collection
ProcInit ==
    /\ ConfigInit
    /\ mgr = { CollectionOf([k \in 1..MaxTorrents |-> IF k = 1 THEN "busy" ELSE "idle"], 1) }
    /\ chatID = 0
    /\ nUpdates = 0
    /\ lastUpdate = <<>>
    /\ tasks = <<>>

\* lines 314-315 and the switch: the goroutine main starts for a message
Dispatch(u) ==
    LET tokens == Split(u.text)
        command == ToLower(tokens[1])
    IN  [NewTask(Resolve(command), u.chat, Tail(tokens)) EXCEPT
            !.text = u.text, !.doc = u.doc]

\* one turn of main's loop: take an update, drop it or start its handler
RouteUpTo(updates, max) ==
    /\ ~panicked
    /\ initPc = "main"
    /\ nUpdates < max
    /\ \E u \in updates :
         /\ nUpdates' = nUpdates + 1
         /\ lastUpdate' = <<u>>
         /\ IF ~u.isMsg
            THEN UNCHANGED <<chatID, tasks, logs>>            \* lines 298-300
            ELSE IF ~IsMaster(u.from)
            THEN /\ logs' = logs + 1                           \* lines 303-306
                 /\ UNCHANGED <<chatID, tasks>>
            ELSE /\ chatID' = IF TransLogFile THEN u.chat ELSE chatID  \* 309-311
                 /\ tasks' = Append(tasks, Dispatch(u))
                 /\ UNCHANGED logs
    /\ UNCHANGED <<mgr, sortMethod, NoLive, TransLogFile, botCalls, mgrCalls, panicked,
                   sendVars, authVars, bootVars>>

RouteFrom(updates) == RouteUpTo(updates, MaxUpdates)

\* the updates of the router's texts, one value shared by every step
RouterUpdates == UpdatesOf(RouterTexts)

Route == RouteFrom(RouterUpdates)

(***************************************************************************)
(* The spellings of the commands: main takes one message, whose text is a  *)
(* command name in some letter case, or a command with blanks around it.   *)
(***************************************************************************)
\* the commands and their two-letter aliases
CommandTable == <<
    [handler |-> "list", long |-> <<"l", "i", "s", "t">>, alias |-> <<"l", "i">>],
    [handler |-> "head", long |-> <<"h", "e", "a", "d">>, alias |-> <<"h", "e">>],
    [handler |-> "tail", long |-> <<"t", "a", "i", "l">>, alias |-> <<"t", "a">>],
    [handler |-> "downs", long |-> <<"d", "o", "w", "n", "s">>, alias |-> <<"d", "l">>],
    [handler |-> "seeding", long |-> <<"s", "e", "e", "d", "i", "n", "g">>, alias |-> <<"s", "d">>],
    [handler |-> "paused", long |-> <<"p", "a", "u", "s", "e", "d">>, alias |-> <<"p", "a">>],
    [handler |-> "checking", long |-> <<"c", "h", "e", "c", "k", "i", "n", "g">>, alias |-> <<"c", "h">>],
    [handler |-> "active", long |-> <<"a", "c", "t", "i", "v", "e">>, alias |-> <<"a", "c">>],
    [handler |-> "errors", long |-> <<"e", "r", "r", "o", "r", "s">>, alias |-> <<"e", "r">>],
    [handler |-> "sort", long |-> <<"s", "o", "r", "t">>, alias |-> <<"s", "o">>],
    [handler |-> "trackers", long |-> <<"t", "r", "a", "c", "k", "e", "r", "s">>, alias |-> <<"t", "r">>],
    [handler |-> "add", long |-> <<"a", "d", "d">>, alias |-> <<"a", "d">>],
    [handler |-> "search", long |-> <<"s", "e", "a", "r", "c", "h">>, alias |-> <<"s", "e">>],
    [handler |-> "latest", long |-> <<"l", "a", "t", "e", "s", "t">>, alias |-> <<"l", "a">>],
    [handler |-> "info", long |-> <<"i", "n", "f", "o">>, alias |-> <<"i", "n">>],
    [handler |-> "stop", long |-> <<"s", "t", "o", "p">>, alias |-> <<"s", "p">>],
    [handler |-> "start", long |-> <<"s", "t", "a", "r", "t">>, alias |-> <<"s", "t">>],
    [handler |-> "check", long |-> <<"c", "h", "e", "c", "k">>, alias |-> <<"c", "k">>],
    [handler |-> "stats", long |-> <<"s", "t", "a", "t", "s">>, alias |-> <<"s", "a">>],
    [handler |-> "speed", long |-> <<"s", "p", "e", "e", "d">>, alias |-> <<"s", "s">>],
    [handler |-> "count", long |-> <<"c", "o", "u", "n", "t">>, alias |-> <<"c", "o">>]
>>

\* the four forms of a command: its name, its alias, and both after a "/"
Forms(e) == {e.long, e.alias, <<"/">> \o e.long, <<"/">> \o e.alias}

\* a word in every letter case
CaseVariants(w) ==
    { [i \in 1..Len(w) |-> IF up[i] THEN ToUpperChar(w[i]) ELSE w[i]] :
          up \in [1..Len(w) -> BOOLEAN] }

Spellings ==
    UNION { CaseVariants(f) : f \in UNION { Forms(CommandTable[k]) : k \in 1..Len(CommandTable) } }

\* commands with blanks before, between and after their words
SpacedTexts == {
    <<" ", "l", "i">>,
    <<"l", "i", " ">>,
    <<"h", "e", " ", " ", "1">>,
    <<"h", "e", " ", "1">>,
    <<"h", "e", "\t", "1">>,
    <<"h", "e", "\n", "1">>,
    <<"\t", "l", "i">>}

SpellingUpdates == UpdatesOf(Spellings \cup SpacedTexts)

RouteSpelling ==
    /\ nUpdates = 0
    /\ RouteFrom(SpellingUpdates)

SpecRoute == ProcInit /\ [][RouteSpelling]_vars

(***************************************************************************)
(* The handlers.  A step of a goroutine runs it up to its next sleep or    *)
(* return: the query, the rendering and the message or edit that follow.   *)
(* send is taken here at the level of its result: the platform accepts the *)
(* message and numbers it (ok), or the call fails and send returns 0.      *)
(***************************************************************************)
\* n defaults to 5 (lines 452, 533)
DefaultN == 5

\* what no handler writes
kept == <<mgr, NoLive, TransLogFile, chatID, nUpdates, lastUpdate, logs,
          orig, text, msgRuneCount, sendPc, handed, ret, authVars, bootVars>>

others == <<kept, sortMethod, panicked>>

\* one call of send: the typing action and the message
SendOnce(ok) ==
    /\ nextMsgID' = IF ok THEN nextMsgID + 1 ELSE nextMsgID
    /\ botCalls' = botCalls + 2

SentID(ok) == IF ok THEN nextMsgID ELSE 0

\* what a goroutine keeps of a message it passed to send
Say(tag, arg, id) == [tag |-> tag, arg |-> arg, msg |-> id]

\* a handler that answers with one message and returns
ReplyAndReturn(t, ok, queries, tag) ==
    /\ tasks' = [tasks EXCEPT ![t] =
                    [@ EXCEPT !.pc = "done", !.replies = @ + 1,
                              !.queries = @ + queries,
                              !.out = Append(@, Say(tag, <<>>, SentID(ok)))]]
    /\ SendOnce(ok)
    /\ mgrCalls' = mgrCalls + queries

QueryFailed_AndGoesOn(t, ok) ==
    /\ tasks' = [tasks EXCEPT ![t] =
                    [@ EXCEPT !.failed = TRUE, !.replies = @ + 1, !.queries = @ + 1,
                              !.pc = IF @ = "start" THEN "live" ELSE @, !.live = TRUE,
                              !.out = Append(@, Say("error", <<>>, SentID(ok)))]]
    /\ SendOnce(ok)
    /\ mgrCalls' = mgrCalls + 1

\* the first query returned an error, lines 410-413, 465-468, 1314-1317 and
\* alike: send(command + err.Error(), ...) and return
QueryFailed(t, ok) ==
    /\ tasks' = [tasks EXCEPT ![t] =
                    [@ EXCEPT !.failed = TRUE, !.replies = @ + 1, !.queries = @ + 1,
                              !.pc = "done",
                              !.out = Append(@, Say("error", <<>>, SentID(ok)))]]
    /\ SendOnce(ok)
    /\ mgrCalls' = mgrCalls + 1

NothingToShow_ButGoesLive(t, ok, arg) ==
    /\ tasks' = [tasks EXCEPT ![t] =
                    [@ EXCEPT !.nothing = TRUE, !.replies = @ + 1, !.queries = @ + 1,
                              !.pc = "live", !.live = TRUE,
                              !.out = Append(@, Say("none", arg, SentID(ok)))]]
    /\ SendOnce(ok)
    /\ mgrCalls' = mgrCalls + 1

\* buf.Len() == 0 after the first pass over the torrents, lines 436-444,
\* 484-487, 627-630, 733-736 and alike: the message that says so, with what
\* it embeds (the pattern of list, line 439), and return
NothingToShow(t, ok, arg) ==
    /\ tasks' = [tasks EXCEPT ![t] =
                    [@ EXCEPT !.nothing = TRUE, !.replies = @ + 1, !.queries = @ + 1,
                              !.pc = "done",
                              !.out = Append(@, Say("none", arg, SentID(ok)))]]
    /\ SendOnce(ok)
    /\ mgrCalls' = mgrCalls + 1

GoesLive_Always == TRUE

\* lines 491-493, 572-574, 740-742, 1107-1109, 1323-1325: if NoLive { return }
GoesLive == ~NoLive

\* the first render went out: lines 489-493, 570-574, 738-742, 1321-1325
FirstRender(t, task, ok) ==
    /\ tasks' = [tasks EXCEPT ![t] =
                    [task EXCEPT !.msgID = SentID(ok), !.replies = @ + 1,
                                 !.queries = @ + 1,
                                 !.out = Append(@, Say("render",
                                            IF task.cmd = "speed" THEN <<>>
                                            ELSE RenderedNames(RenderList(task.cmd,
                                                     task.torrents, task.n)),
                                            SentID(ok))),
                                 !.live = GoesLive,
                                 !.pc = IF GoesLive THEN "live" ELSE "done"]]
    /\ SendOnce(ok)
    /\ mgrCalls' = mgrCalls + 1

\* head and tail up to the first render, lines 450-493 and 531-574
HeadTailStart(t) ==
    LET task == tasks[t]
        a == IF task.tokens = <<>> THEN [ok |-> TRUE, val |-> DefaultN]
             ELSE Atoi(task.tokens[1])
    IN
    /\ ~panicked
    /\ task.pc = "start"
    /\ task.cmd \in {"head", "tail"}
    /\ \E ok \in BOOLEAN :
         IF ~a.ok THEN ReplyAndReturn(t, ok, 0, "notnumber")
         ELSE \E res \in GetTorrentsResults :
                IF ~res.ok THEN QueryFailed(t, ok)
                ELSE LET n == Clamp(a.val, Len(res.torrents)) IN
                     IF RenderList(task.cmd, res.torrents, n) = <<>>
                     THEN NothingToShow(t, ok, <<>>)
                     ELSE FirstRender(t, [task EXCEPT !.n = n,
                                                      !.torrents = res.torrents,
                                                      !.lastGood = res.torrents], ok)
    /\ UNCHANGED others

\* active up to the first render, lines 714-742
ActiveStart(t) ==
    LET task == tasks[t] IN
    /\ ~panicked
    /\ task.pc = "start"
    /\ task.cmd = "active"
    /\ \E ok \in BOOLEAN : \E res \in GetTorrentsResults :
         IF ~res.ok THEN QueryFailed(t, ok)
         ELSE IF RenderActive(res.torrents) = <<>>
         THEN NothingToShow(t, ok, <<>>)
         ELSE FirstRender(t, [task EXCEPT !.torrents = res.torrents,
                                          !.lastGood = res.torrents], ok)
    /\ UNCHANGED others

\* speed up to the first render, lines 1312-1325
SpeedStart(t) ==
    LET task == tasks[t] IN
    /\ ~panicked
    /\ task.pc = "start"
    /\ task.cmd = "speed"
    /\ \E ok \in BOOLEAN : \E res \in GetStatsResults :
         IF ~res.ok THEN QueryFailed(t, ok)
         ELSE FirstRender(t, [task EXCEPT !.lastGood = res.torrents], ok)
    /\ UNCHANGED others

\* the default case, line 399: go send("No such command, try /help", ...)
DefaultStart(t) ==
    /\ ~panicked
    /\ tasks[t].pc = "start"
    /\ tasks[t].cmd = "default"
    /\ \E ok \in BOOLEAN : ReplyAndReturn(t, ok, 0, "nosuch")
    /\ UNCHANGED others

LoopOver_AfterOneTurn(task) == task.i >= 1

\* lines 496, 577, 745, 1113, 1327: for i := 0; i < duration; i++ has run out
LoopOver(task) == task.i = duration

TickEdits_EmptyToo(cmd, res) == res.ok

\* whether a tick edits the message: not when the query failed (lines 501-503,
\* 752-754, 1116-1118, 1330-1332), nor, in head and tail, when it returned no
\* torrent (lines 505-507, 586-588)
TickEdits(cmd, res) ==
    res.ok /\ (cmd \in {"head", "tail"} => Len(res.torrents) >= 1)

\* what a tick of any live loop leaves in the goroutine's record
AfterTick(task, res, view) ==
    LET edit == TickEdits(task.cmd, res) IN
    [task EXCEPT
        !.i = @ + 1,
        !.queries = @ + 1,
        !.torrents = IF task.cmd = "speed" THEN @ ELSE res.torrents,
        !.fails = IF res.ok THEN @ ELSE @ + 1,
        !.empties = IF res.ok /\ task.cmd \in {"head", "tail"} /\ res.torrents = <<>>
                    THEN @ + 1 ELSE @,
        !.lastGood = IF res.ok THEN res.torrents ELSE @,
        !.edits = IF edit THEN @ + 1 ELSE @,
        !.lastEdit = IF edit THEN view ELSE @]

TickCalls(task, res) ==
    /\ mgrCalls' = mgrCalls + 1
    /\ botCalls' = botCalls + (IF TickEdits(task.cmd, res) THEN 1 ELSE 0)
    /\ UNCHANGED nextMsgID

\* one turn of the live loop of head and tail, lines 496-526 and 577-607;
\* the function returns after the last turn
HeadTailTick(t) ==
    LET task == tasks[t] IN
    /\ ~panicked
    /\ task.pc = "live"
    /\ task.cmd \in {"head", "tail"}
    /\ ~LoopOver(task)
    /\ \E res \in GetTorrentsResults :
         LET n == IF TickEdits(task.cmd, res) THEN Clamp(task.n, Len(res.torrents))
                  ELSE task.n
             after == AfterTick(task, res, RenderList(task.cmd, res.torrents, n))
         IN  /\ tasks' = [tasks EXCEPT ![t] =
                   [after EXCEPT !.n = n,
                                 !.pc = IF after.i = duration THEN "done" ELSE "live"]]
             /\ TickCalls(task, res)
    /\ UNCHANGED others

\* one turn of the live loop of active, lines 745-772
ActiveTick(t) ==
    LET task == tasks[t] IN
    /\ ~panicked
    /\ task.pc = "live"
    /\ task.cmd = "active"
    /\ ~LoopOver(task)
    /\ \E res \in GetTorrentsResults :
         /\ tasks' = [tasks EXCEPT ![t] = AfterTick(task, res, RenderActive(res.torrents))]
         /\ TickCalls(task, res)
    /\ UNCHANGED others

\* after the loop of active, lines 773-791: the dashes
ActiveFreeze(t) ==
    LET task == tasks[t] IN
    /\ ~panicked
    /\ task.pc = "live"
    /\ task.cmd = "active"
    /\ LoopOver(task)
    /\ tasks' = [tasks EXCEPT ![t] =
                    [task EXCEPT !.frozen = @ + 1, !.pc = "done",
                                 !.lastEdit = RenderActiveFrozen(task.torrents)]]
    /\ botCalls' = botCalls + 1
    /\ UNCHANGED <<mgrCalls, nextMsgID>>
    /\ UNCHANGED others

\* one turn of the live loop of speed, lines 1327-1339
SpeedTick(t) ==
    LET task == tasks[t] IN
    /\ ~panicked
    /\ task.pc = "live"
    /\ task.cmd = "speed"
    /\ ~LoopOver(task)
    /\ \E res \in GetStatsResults :
         /\ tasks' = [tasks EXCEPT ![t] =
                         AfterTick(task, res, [k \in 1..Len(res.torrents) |-> Block(res.torrents[k])])]
         /\ TickCalls(task, res)
    /\ UNCHANGED others

\* after the loop of speed, lines 1340-1345
SpeedFreeze(t) ==
    LET task == tasks[t] IN
    /\ ~panicked
    /\ task.pc = "live"
    /\ task.cmd = "speed"
    /\ LoopOver(task)
    /\ tasks' = [tasks EXCEPT ![t] =
                    [task EXCEPT !.frozen = @ + 1, !.pc = "done",
                                 !.lastEdit = <<[id |-> 0, rate |-> Placeholder]>>]]
    /\ botCalls' = botCalls + 1
    /\ UNCHANGED <<mgrCalls, nextMsgID>>
    /\ UNCHANGED others

Found_Always(res) == TRUE

\* lines 1082, 1116: err == nil
Found(res) == res.ok

\* info without an argument, lines 1068-1071; with arguments it enters its loop
InfoStart(t) ==
    LET task == tasks[t] IN
    /\ ~panicked
    /\ task.pc = "start"
    /\ task.cmd = "info"
    /\ IF task.tokens = <<>>
       THEN \E ok \in BOOLEAN : ReplyAndReturn(t, ok, 0, "usage")
       ELSE /\ tasks' = [tasks EXCEPT ![t] = [task EXCEPT !.pc = "ids"]]
            /\ UNCHANGED <<nextMsgID, botCalls, mgrCalls>>
    /\ UNCHANGED others

\* one turn of info's loop over its arguments, lines 1073-1147
InfoNext(t) ==
    LET task == tasks[t]
        id == Head(task.tokens)
        a == Atoi(id)
        rest == Tail(task.tokens)
        goOn(tag, q, ok) ==
            [task EXCEPT !.tokens = rest, !.replies = @ + 1, !.queries = @ + q,
                         !.out = Append(@, Say(tag, id, SentID(ok))),
                         !.pc = IF rest = <<>> THEN "done" ELSE "ids"]
    IN
    /\ ~panicked
    /\ task.pc = "ids"
    /\ \E ok \in BOOLEAN :
         /\ SendOnce(ok)
         /\ IF ~a.ok
            THEN /\ tasks' = [tasks EXCEPT ![t] = goOn("notnumber", 0, ok)]  \* 1075-1078
                 /\ UNCHANGED mgrCalls
            ELSE /\ mgrCalls' = mgrCalls + 1
                 /\ \E res \in GetTorrentResults(a.val) :
                      IF ~Found(res)
                      THEN tasks' = [tasks EXCEPT ![t] =                    \* 1082-1085
                                        goOn("cantfind", 1, ok)]
                      ELSE IF ~GoesLive
                      THEN tasks' = [tasks EXCEPT ![t] =                    \* 1107-1109
                                        [goOn("info", 1, ok) EXCEPT !.pc = "done"]]
                      ELSE tasks' = Append([tasks EXCEPT ![t] = goOn("info", 1, ok)],
                                [NewTask("infoLive", task.chat, <<>>) EXCEPT  \* 1112
                                    !.pc = "live", !.live = TRUE, !.tid = a.val,
                                    !.msgID = SentID(ok),
                                    !.torrents = res.torrents,
                                    !.lastGood = res.torrents])
    /\ UNCHANGED others

\* one turn of the loop of info's goroutine, lines 1113-1132
InfoTick(t) ==
    LET task == tasks[t] IN
    /\ ~panicked
    /\ task.pc = "live"
    /\ task.cmd = "infoLive"
    /\ ~LoopOver(task)
    /\ \E res \in GetTorrentResults(task.tid) :
         /\ tasks' = [tasks EXCEPT ![t] =
                         AfterTick(task, res, [k \in 1..Len(res.torrents) |-> Block(res.torrents[k])])]
         /\ TickCalls(task, res)
    /\ UNCHANGED others

\* after the loop of info's goroutine, lines 1133-1145: the dashes
InfoFreeze(t) ==
    LET task == tasks[t] IN
    /\ ~panicked
    /\ task.pc = "live"
    /\ task.cmd = "infoLive"
    /\ LoopOver(task)
    /\ task.torrents # <<>>
    /\ tasks' = [tasks EXCEPT ![t] =
                    [task EXCEPT !.frozen = @ + 1, !.pc = "done",
                                 !.lastEdit = <<FrozenBlock(task.torrents[1])>>]]
    /\ botCalls' = botCalls + 1
    /\ UNCHANGED <<mgrCalls, nextMsgID>>
    /\ UNCHANGED others

\* line 1137: torrent.Name with torrent nil after a failed last query: the
\* goroutine panics and the process ends
InfoFreezePanic(t) ==
    LET task == tasks[t] IN
    /\ ~panicked
    /\ task.pc = "live"
    /\ task.cmd = "infoLive"
    /\ LoopOver(task)
    /\ task.torrents = <<>>
    /\ panicked' = TRUE
    /\ UNCHANGED <<tasks, botCalls, mgrCalls, nextMsgID>>
    /\ UNCHANGED <<mgr, sortMethod, NoLive, TransLogFile, chatID, nUpdates, lastUpdate,
                   logs, sendVars, authVars, bootVars>>

(***************************************************************************)
(* sort, list and latest.                                                  *)
(***************************************************************************)
\* a handler that answers with the list v and returns
ReplyList(t, ok, v) ==
    /\ tasks' = [tasks EXCEPT ![t] =
                    [@ EXCEPT !.pc = "done", !.replies = @ + 1, !.queries = @ + 1,
                              !.view = v,
                              !.out = Append(@, Say("list", <<>>, SentID(ok)))]]
    /\ SendOnce(ok)
    /\ mgrCalls' = mgrCalls + 1

\* lines 827-831: the tokens after an optional "rev"
IsRev(tokens) == ToLower(tokens[1]) = <<"r", "e", "v">>

SortArgs(tokens) == IF IsRev(tokens) THEN Tail(tokens) ELSE tokens

SetSort_NeverReversed(field, rev) == [field |-> field, rev |-> FALSE]

\* lines 833-893: Client.SetSort(...) with the constant of the field
SetSort(field, rev) == [field |-> field, rev |-> rev]

KnownField_Any(field) == TRUE

\* lines 833-897: the switch has a case for the field, or falls to default
KnownField(field) == field \in SortFields

\* sort, lines 818-904
SortStart(t) ==
    LET task == tasks[t]
        args == SortArgs(task.tokens)
        field == ToLower(args[1])
    IN
    /\ ~panicked
    /\ task.pc = "start"
    /\ task.cmd = "sort"
    /\ task.tokens # <<>> => args # <<>>
    /\ \E ok \in BOOLEAN :
         IF task.tokens = <<>>
         THEN ReplyAndReturn(t, ok, 0, "usage") /\ UNCHANGED sortMethod      \* 819-825
         ELSE IF ~KnownField(field)
         THEN ReplyAndReturn(t, ok, 0, "unknown") /\ UNCHANGED sortMethod    \* 894-896
         ELSE /\ sortMethod' = SetSort(field, IsRev(task.tokens))
              /\ tasks' = [tasks EXCEPT ![t] =                               \* 899-903
                     [@ EXCEPT !.pc = "done", !.replies = @ + 1,
                               !.out = Append(@, Say("sorted",
                                   (IF IsRev(task.tokens)
                                    THEN <<"r", "e", "v", "e", "r", "s", "e", "d", " ">>
                                    ELSE <<>>) \o args[1],
                                   SentID(ok)))]]
              /\ SendOnce(ok)
              /\ UNCHANGED mgrCalls
    /\ UNCHANGED <<kept, panicked>>

\* line 833: tokens[0] of the empty slice that "rev" alone leaves: index out of
\* range, the goroutine panics and the process ends
SortPanic(t) ==
    LET task == tasks[t] IN
    /\ ~panicked
    /\ task.pc = "start"
    /\ task.cmd = "sort"
    /\ task.tokens # <<>>
    /\ SortArgs(task.tokens) = <<>>
    /\ panicked' = TRUE
    /\ UNCHANGED <<tasks, botCalls, mgrCalls, nextMsgID, kept, sortMethod>>

\* The patterns of the model are plain words, which match the texts they occur
\* in; "(" alone makes a pattern that regexp.Compile refuses.
RegexpCompiles(pattern) == \A i \in 1..Len(pattern) : pattern[i] # "("

\* regexp "(?i)" + pattern matched against s
MatchString(pattern, s) ==
    \E i \in 0..(Len(s) - Len(pattern)) :
        ToLower(SubSeq(s, i + 1, i + Len(pattern))) = ToLower(pattern)

Ids(ts) == [k \in 1..Len(ts) |-> ts[k].id]

\* list, lines 408-447
ListStart(t) ==
    LET task == tasks[t]
        Match(tor) == MatchString(task.tokens[1], Trackers(tor))
    IN
    /\ ~panicked
    /\ task.pc = "start"
    /\ task.cmd = "list"
    /\ \E ok \in BOOLEAN : \E res \in GetTorrentsResults :
         IF ~res.ok THEN QueryFailed(t, ok)
         ELSE IF task.tokens # <<>> /\ ~RegexpCompiles(task.tokens[1])
         THEN ReplyAndReturn(t, ok, 1, "error")
         ELSE LET shown == IF task.tokens = <<>> THEN res.torrents
                           ELSE SelectSeq(res.torrents, Match)
              IN  IF shown = <<>>
                  THEN NothingToShow(t, ok, IF task.tokens = <<>> THEN <<>>  \* 442
                                            ELSE task.tokens[1])            \* 439
                  ELSE ReplyList(t, ok, Ids(shown))
    /\ UNCHANGED others

\* line 1053, torrents.SortAge(true): the handler's own slice, newest first;
\* torrents are added in the order of their ids
SortAge(ts, rev) == Sorted(ts, [field |-> <<"a", "g", "e">>, rev |-> rev])

LatestOrder_SetsClient(method) == [field |-> <<"a", "g", "e">>, rev |-> TRUE]

\* what line 1053 leaves of the client's order: it sorts the slice that
\* GetTorrents returned, not the client
LatestOrder(method) == method

\* latest, lines 1027-1064
LatestStart(t) ==
    LET task == tasks[t]
        a == IF task.tokens = <<>> THEN [ok |-> TRUE, val |-> DefaultN]
             ELSE Atoi(task.tokens[1])
    IN
    /\ ~panicked
    /\ task.pc = "start"
    /\ task.cmd = "latest"
    /\ \E ok \in BOOLEAN :
         IF ~a.ok THEN ReplyAndReturn(t, ok, 0, "notnumber") /\ UNCHANGED sortMethod
         ELSE \E res \in GetTorrentsResults :
                IF ~res.ok THEN QueryFailed(t, ok) /\ UNCHANGED sortMethod
                ELSE LET n == Clamp(a.val, Len(res.torrents))
                         shown == SubSeq(SortAge(res.torrents, TRUE), 1, n)
                     IN  /\ sortMethod' = LatestOrder(sortMethod)
                         /\ IF shown = <<>> THEN NothingToShow(t, ok, <<>>)
                            ELSE ReplyList(t, ok, Ids(shown))
    /\ UNCHANGED <<kept, panicked>>

(***************************************************************************)
(* add and receiveTorrent; stop, start and check; del and deldata.  A call *)
(* that changes the manager succeeds or fails.                             *)
(***************************************************************************)
\* one more message about the argument arg, the goroutine going on at pc
Reply(task, tag, arg, q, ok, pc) ==
    [task EXCEPT !.replies = @ + 1, !.queries = @ + q, !.pc = pc,
                 !.out = Append(@, Say(tag, arg, SentID(ok)))]

\* where a loop over the arguments goes after one of them
Onward(rest, pc) == IF rest = <<>> THEN "done" ELSE pc

\* add without an URL, lines 947-950; with URLs it enters its loop
AddStart(t) ==
    LET task == tasks[t] IN
    /\ ~panicked
    /\ task.pc = "start"
    /\ task.cmd = "add"
    /\ IF task.tokens = <<>>
       THEN \E ok \in BOOLEAN : ReplyAndReturn(t, ok, 0, "usage")
       ELSE /\ tasks' = [tasks EXCEPT ![t] = [task EXCEPT !.pc = "urls"]]
            /\ UNCHANGED <<nextMsgID, botCalls, mgrCalls>>
    /\ UNCHANGED others

\* one turn of add's loop, lines 953-968: Client.ExecuteAddCommand and a reply
AddNext(t) ==
    LET task == tasks[t]
        url == Head(task.tokens)
        rest == Tail(task.tokens)
    IN
    /\ ~panicked
    /\ task.pc = "urls"
    /\ \E ok \in BOOLEAN : \E added \in {"error", "erroradding", "added"} :
         /\ tasks' = [tasks EXCEPT ![t] =
                [Reply(task, added, url, 1, ok, Onward(rest, "urls")) EXCEPT
                    !.tokens = rest]]
         /\ SendOnce(ok)
         /\ mgrCalls' = mgrCalls + 1
    /\ UNCHANGED others

\* file.Link(BotToken), line 988: the address of the file at the platform,
\* which holds the token between the host and the path of the file
Link == <<"u", "/">> \o BotToken \o <<"/", "f">>

\* what the text of a message of add holds of the URL it is about: "*add:*
\* error adding "+url holds all of it (line 963), "*add:* "+err.Error() and
\* "*Added:* <id> name" hold none (lines 958, 966); the other messages of the
\* model are kept with what they embed
Written(cmd, said) ==
    IF cmd \in {"add", "receiveTorrent"} /\ said.tag \in {"error", "added"} THEN <<>>
    ELSE said.arg

HasDocument_Always(task) == TRUE

\* ud.Message.Document is not nil, line 973
HasDocument(task) == task.doc

\* receiveTorrent, lines 972-989: Bot.GetFile and, with the link, add
ReceiveStart(t) ==
    LET task == tasks[t] IN
    /\ ~panicked
    /\ task.pc = "start"
    /\ task.cmd = "receiveTorrent"
    /\ IF ~HasDocument(task)
       THEN /\ tasks' = [tasks EXCEPT ![t] = [task EXCEPT !.pc = "done"]]   \* 973-975
            /\ UNCHANGED <<nextMsgID, botCalls, mgrCalls>>
       ELSE \E got \in BOOLEAN :
              IF ~got
              THEN \E ok \in BOOLEAN :                                     \* 982-985
                     /\ tasks' = [tasks EXCEPT ![t] =
                                     Reply(task, "receiver", <<>>, 0, ok, "done")]
                     /\ nextMsgID' = IF ok THEN nextMsgID + 1 ELSE nextMsgID
                     /\ botCalls' = botCalls + 3
                     /\ UNCHANGED mgrCalls
              ELSE /\ tasks' = [tasks EXCEPT ![t] =                        \* 988
                                   [task EXCEPT !.pc = "urls", !.tokens = <<Link>>]]
                   /\ botCalls' = botCalls + 1
                   /\ UNCHANGED <<nextMsgID, mgrCalls>>
    /\ UNCHANGED others

All == <<"a", "l", "l">>

IsAll_NotNumber(tok) == FALSE

\* lines 1159, 1198, 1238: tokens[0] == "all"
IsAll(tok) == tok = All

\* stop, start and check without an argument or with "all", lines 1153-1166,
\* 1192-1206, 1232-1246; with other arguments they enter their loop
MutateStart(t) ==
    LET task == tasks[t] IN
    /\ ~panicked
    /\ task.pc = "start"
    /\ task.cmd \in {"stop", "start", "check"}
    /\ IF task.tokens = <<>>
       THEN \E ok \in BOOLEAN : ReplyAndReturn(t, ok, 0, "usage")
       ELSE IF IsAll(task.tokens[1])
       THEN \E ok \in BOOLEAN : \E done \in BOOLEAN :
              /\ tasks' = [tasks EXCEPT ![t] =
                    Reply(task, IF done THEN "all" ELSE "error", task.tokens[1], 1, ok, "done")]
              /\ SendOnce(ok)
              /\ mgrCalls' = mgrCalls + 1
       ELSE /\ tasks' = [tasks EXCEPT ![t] = [task EXCEPT !.pc = "args"]]
            /\ UNCHANGED <<nextMsgID, botCalls, mgrCalls>>
    /\ UNCHANGED others

\* one turn of their loop, lines 1168-1186, 1208-1226, 1248-1266
MutateNext(t) ==
    LET task == tasks[t]
        id == Head(task.tokens)
        a == Atoi(id)
        rest == Tail(task.tokens)
        on(tag, q, ok, pc) == [Reply(task, tag, id, q, ok, pc) EXCEPT !.tokens = rest]
    IN
    /\ ~panicked
    /\ task.pc = "args"
    /\ \E ok \in BOOLEAN :
         /\ SendOnce(ok)
         /\ IF ~a.ok
            THEN /\ tasks' = [tasks EXCEPT ![t] =
                                 on("notnumber", 0, ok, Onward(rest, "args"))]
                 /\ UNCHANGED mgrCalls
            ELSE \E done \in BOOLEAN :
                   IF ~done
                   THEN /\ tasks' = [tasks EXCEPT ![t] =
                                        on("error", 1, ok, Onward(rest, "args"))]
                        /\ mgrCalls' = mgrCalls + 1
                   ELSE /\ mgrCalls' = mgrCalls + 2
                        /\ \E res \in GetTorrentResults(a.val) :
                             tasks' = [tasks EXCEPT ![t] =
                                 IF Found(res)
                                 THEN on("status", 2, ok, Onward(rest, "args"))
                                 ELSE on("fail", 2, ok, "done")]
    /\ UNCHANGED others

\* del and deldata without an argument, lines 1387-1390, 1413-1416
DelStart(t) ==
    LET task == tasks[t] IN
    /\ ~panicked
    /\ task.pc = "start"
    /\ task.cmd \in {"del", "deldata"}
    /\ IF task.tokens = <<>>
       THEN \E ok \in BOOLEAN : ReplyAndReturn(t, ok, 0, "usage")
       ELSE /\ tasks' = [tasks EXCEPT ![t] = [task EXCEPT !.pc = "dels"]]
            /\ UNCHANGED <<nextMsgID, botCalls, mgrCalls>>
    /\ UNCHANGED others

\* one turn of their loop, lines 1393-1407, 1418-1432: the first argument that
\* is no number or cannot be deleted ends the loop
DelNext(t) ==
    LET task == tasks[t]
        id == Head(task.tokens)
        a == Atoi(id)
        rest == Tail(task.tokens)
        on(tag, q, ok, pc) == [Reply(task, tag, id, q, ok, pc) EXCEPT !.tokens = rest]
    IN
    /\ ~panicked
    /\ task.pc = "dels"
    /\ \E ok \in BOOLEAN :
         /\ SendOnce(ok)
         /\ IF ~a.ok
            THEN /\ tasks' = [tasks EXCEPT ![t] = on("notnumber", 0, ok, "done")]
                 /\ UNCHANGED mgrCalls
            ELSE /\ mgrCalls' = mgrCalls + 1
                 /\ \E done \in BOOLEAN :
                      tasks' = [tasks EXCEPT ![t] =
                          IF done THEN on("deleted", 1, ok, Onward(rest, "dels"))
                          ELSE on("error", 1, ok, "done")]
    /\ UNCHANGED others

(***************************************************************************)
(* The handlers that query once and answer once.                           *)
(***************************************************************************)
\* the torrents of ts at the places keep, in their order: the torrents whose
\* Status, Error or Trackers pass the test of the handler's loop (lines 621-624,
\* 645-648, 670-673, 696-702, 805-808, 919-931), fields the model leaves open
RECURSIVE PickedFrom(_, _, _)
PickedFrom(ts, keep, k) ==
    IF k > Len(ts) THEN <<>>
    ELSE (IF k \in keep THEN <<ts[k]>> ELSE <<>>) \o PickedFrom(ts, keep, k + 1)

Picked(ts, keep) == PickedFrom(ts, keep, 1)

\* downs, seeding, paused, checking and errors (lines 612-711, 796-815) list
\* the torrents of Client.GetTorrents that pass their test; count (1349-1382)
\* counts them and stats (1271-1309) shows Client.GetStats
ReportStart(t) ==
    LET task == tasks[t] IN
    /\ ~panicked
    /\ task.pc = "start"
    /\ task.cmd \in {"downs", "seeding", "paused", "checking", "errors", "count", "stats"}
    /\ \E ok \in BOOLEAN :
         \E res \in IF task.cmd = "stats" THEN GetStatsResults ELSE GetTorrentsResults :
           IF ~res.ok THEN QueryFailed(t, ok)
           ELSE IF task.cmd \in {"stats", "count"}
           THEN ReplyAndReturn(t, ok, 1, "report")
           ELSE \E keep \in SUBSET (1..Len(res.torrents)) :
                  LET shown == Picked(res.torrents, keep) IN
                  IF shown = <<>> THEN NothingToShow(t, ok, <<>>)
                  ELSE ReplyList(t, ok, Ids(shown))
    /\ UNCHANGED others

\* lines 917-931: the map from the host of a tracker to the number of torrents
\* that announce to it
TrackerCounts(ts) ==
    [h \in { Trackers(ts[k]) : k \in 1..Len(ts) } |->
        Cardinality({ k \in 1..Len(ts) : Trackers(ts[k]) = h })]

\* line 934, for k, v := range trackers: Go leaves the order in which a map is
\* ranged over unspecified, and the runtime starts every range at a place it
\* draws at random; every order of the keys can come out
RangeOrders(m) ==
    { o \in [1..Cardinality(DOMAIN m) -> DOMAIN m] :
          \A i, j \in 1..Cardinality(DOMAIN m) : i # j => o[i] # o[j] }

\* trackers, lines 909-943: a line "count - host" for every host
TrackersStart(t) ==
    LET task == tasks[t] IN
    /\ ~panicked
    /\ task.pc = "start"
    /\ task.cmd = "trackers"
    /\ \E ok \in BOOLEAN : \E res \in GetTorrentsResults :
         IF ~res.ok THEN QueryFailed(t, ok)
         ELSE LET trackers == TrackerCounts(res.torrents) IN
              IF DOMAIN trackers = {} THEN NothingToShow(t, ok, <<>>)   \* 938-941
              ELSE \E o \in RangeOrders(trackers) :
                     ReplyList(t, ok, [k \in 1..Len(o) |->
                                          [n |-> trackers[o[k]], host |-> o[k]]])
    /\ UNCHANGED others

\* strings.Join(tokens, " ")
RECURSIVE Join(_)
Join(tokens) ==
    IF Len(tokens) <= 1 THEN (IF tokens = <<>> THEN <<>> ELSE tokens[1])
    ELSE tokens[1] \o <<" ">> \o Join(Tail(tokens))

\* search, lines 992-1024
SearchStart(t) ==
    LET task == tasks[t]
        query == Join(task.tokens)
        Match(tor) == MatchString(query, Name(tor))
    IN
    /\ ~panicked
    /\ task.pc = "start"
    /\ task.cmd = "search"
    /\ \E ok \in BOOLEAN :
         IF task.tokens = <<>> THEN ReplyAndReturn(t, ok, 0, "usage")
         ELSE IF ~RegexpCompiles(query)
         THEN ReplyAndReturn(t, ok, 0, "error")
         ELSE \E res \in GetTorrentsResults :
                IF ~res.ok THEN QueryFailed(t, ok)
                ELSE LET shown == SelectSeq(res.torrents, Match) IN
                     IF shown = <<>> THEN NothingToShow(t, ok, <<>>)
                     ELSE ReplyList(t, ok, Ids(shown))
    /\ UNCHANGED others

\* help and version, lines 387-391 and 1436-1438: a text the process holds
StaticStart(t) ==
    /\ ~panicked
    /\ tasks[t].pc = "start"
    /\ tasks[t].cmd \in {"help", "version"}
    /\ \E ok \in BOOLEAN : ReplyAndReturn(t, ok, 0, "static")
    /\ UNCHANGED others

HandlerNext ==
    \/ \E t \in 1..Len(tasks) : HeadTailStart(t)
    \/ \E t \in 1..Len(tasks) : ActiveStart(t)
    \/ \E t \in 1..Len(tasks) : SpeedStart(t)
    \/ \E t \in 1..Len(tasks) : DefaultStart(t)
    \/ \E t \in 1..Len(tasks) : InfoStart(t)
    \/ \E t \in 1..Len(tasks) : InfoNext(t)
    \/ \E t \in 1..Len(tasks) : HeadTailTick(t)
    \/ \E t \in 1..Len(tasks) : ActiveTick(t)
    \/ \E t \in 1..Len(tasks) : SpeedTick(t)
    \/ \E t \in 1..Len(tasks) : InfoTick(t)
    \/ \E t \in 1..Len(tasks) : ActiveFreeze(t)
    \/ \E t \in 1..Len(tasks) : SpeedFreeze(t)
    \/ \E t \in 1..Len(tasks) : InfoFreeze(t)
    \/ \E t \in 1..Len(tasks) : InfoFreezePanic(t)

CommandNext ==
    \/ \E t \in 1..Len(tasks) : SortStart(t)
    \/ \E t \in 1..Len(tasks) : SortPanic(t)
    \/ \E t \in 1..Len(tasks) : ListStart(t)
    \/ \E t \in 1..Len(tasks) : LatestStart(t)
    \/ \E t \in 1..Len(tasks) : AddStart(t)
    \/ \E t \in 1..Len(tasks) : AddNext(t)
    \/ \E t \in 1..Len(tasks) : ReceiveStart(t)
    \/ \E t \in 1..Len(tasks) : MutateStart(t)
    \/ \E t \in 1..Len(tasks) : MutateNext(t)
    \/ \E t \in 1..Len(tasks) : DelStart(t)
    \/ \E t \in 1..Len(tasks) : DelNext(t)
    \/ \E t \in 1..Len(tasks) : ReportStart(t)
    \/ \E t \in 1..Len(tasks) : TrackersStart(t)
    \/ \E t \in 1..Len(tasks) : SearchStart(t)
    \/ \E t \in 1..Len(tasks) : StaticStart(t)

\* One command on its own, the manager's collection changing freely under it:
\* the state after main started the goroutine for one message of a master.
LiveInit ==
    /\ ConfigInit
    /\ mgr = Snapshots
    /\ \E u \in { x \in UpdatesOf(LiveTexts) : x.isMsg /\ IsMaster(x.from) } :
         /\ lastUpdate = <<u>>
         /\ tasks = <<Dispatch(u)>>
         /\ chatID = IF TransLogFile THEN u.chat ELSE 0
    /\ nUpdates = 1

LiveNext == HandlerNext \/ CommandNext

SpecLive == LiveInit /\ [][LiveNext]_vars

(***************************************************************************)
(* Claims about send (checked under SpecSend).                             *)
(***************************************************************************)
RECURSIVE ConcatTexts(_)
ConcatTexts(ms) == IF ms = <<>> THEN <<>> ELSE Head(ms).text \o ConcatTexts(Tail(ms))

\* the chunks handed by the LenCheck loop (all but the message of SendLast)
NumSplits == IF sendPc = "done" THEN Len(handed) - 1 ELSE Len(handed)

\* the text send held when it cut chunk i off
BeforeSplit(i) == SliceFrom(orig, Len(ConcatTexts(SubSeq(handed, 1, i - 1))))

\* the first byte of every rune of s, in order
LeadBytes(s) == SelectSeq(s, LAMBDA b : ~IsContinuation(b))

\* C4: every message handed to the platform carries at most the limit of
\* characters (4096 in the source), whatever the text and its newlines.
C4_ChunkWithinLimit ==
    \A i \in 1..Len(handed) : RuneCountInString(handed[i].text) <= MaxMsgRunes

C4_Witness ==
    /\ sendPc = "done"
    /\ Len(handed) >= 2
    /\ RuneCountInString(orig) > MaxMsgRunes
    /\ \E i \in 1..Len(handed) : RuneCountInString(handed[i].text) = MaxMsgRunes

\* C5 (as claimed): every chunk boundary is on a newline, and that newline is
\* the last one among the first MaxMsgRunes characters of the text being cut.
C5_SplitAtLastNewlineWithinLimit ==
    \A i \in 1..NumSplits :
        LET lead == LeadBytes(BeforeSplit(i))
            s    == RuneCountInString(handed[i].text)
        IN  /\ s < Len(lead)
            /\ lead[s + 1] = NL
            /\ \A j \in (s + 1)..(MaxMsgRunes - 1) : j < Len(lead) => lead[j + 1] # NL

\* C6 (as claimed): once send has ended, the chunks handed to the platform,
\* concatenated in order, are the text it was given.
C6_ChunksReproduceText ==
    sendPc \in {"done", "panic"} => ConcatTexts(handed) = orig

\* C7 (as claimed): send never dies in its scan for a newline, and every chunk
\* the loop cuts off is non-empty, so that the remaining text gets shorter.
C7_SendTerminates ==
    /\ sendPc # "panic"
    /\ \A i \in 1..NumSplits : Len(handed[i].text) > 0

\* C8 (as claimed): when the text went out as several chunks, send returns the
\* identifier of the first chunk.
C8_ReturnsFirstChunkID ==
    (sendPc = "done" /\ Len(handed) >= 2) => ret = handed[1].id

\* C8 (amended): send returns the identifier the platform gave to the last
\* chunk it handed over, which is 0 when that call failed.
C8_ReturnsLastChunkID ==
    sendPc = "done" => ret = handed[Len(handed)].id

C8_Witness ==
    /\ sendPc = "done"
    /\ Len(handed) >= 2
    /\ handed[1].id # 0
    /\ ret # 0
    /\ ret # handed[1].id

(***************************************************************************)
(* Claims about the access gate (checked under SpecAuth).                  *)
(***************************************************************************)
\* the claim's normal form: lower-cased, one leading "@" removed
ClaimNorm(s) ==
    LET l == ToLower(s) IN IF l # <<>> /\ Head(l) = "@" THEN Tail(l) ELSE l

\* C9 (as claimed): the sender is authorized exactly when the inbound and a
\* configured identity are equal after lower-casing and removing a leading
\* "@" from each of the two.
C9_AuthIgnoresCaseAndAtBothSides ==
    authDone =>
    authOK = \E i \in 1..Len(flags) : ClaimNorm(authFrom) = ClaimNorm(flags[i])

\* C9 (amended): the sender is authorized exactly when the lower-cased inbound
\* identity equals a configured identity lower-cased with every "@" removed;
\* no "@" is removed from the inbound identity.
C9_AuthIgnoresCaseAndConfiguredAt ==
    authDone =>
    authOK = \E i \in 1..Len(flags) :
                 ToLower(authFrom) = SelectSeq(ToLower(flags[i]), LAMBDA c : c # "@")

C9_Witness ==
    /\ authOK
    /\ authFrom = <<"B">>
    /\ flags = << <<"@", "b">> >>

(***************************************************************************)
(* Claims about the live sessions (checked under SpecLive).                *)
(***************************************************************************)
\* the goroutines that entered a live loop
LiveTasks == { t \in 1..Len(tasks) : tasks[t].live }

\* a live session is over: its goroutine returned
Ended(t) == tasks[t].live /\ tasks[t].pc = "done"

\* C1: every live session of head, tail, active, info and speed that is over
\* has issued exactly one frozen edit, and no session issues more than one.
C1_EndedSessionIssuedOneFrozenEdit ==
    \A t \in LiveTasks :
        /\ tasks[t].frozen <= 1
        /\ Ended(t) => tasks[t].frozen = 1

FrozenView(cmd, ts) ==
    IF cmd = "active" THEN RenderActiveFrozen(ts)
    ELSE IF cmd = "infoLive" THEN [k \in 1..Len(ts) |-> FrozenBlock(ts[k])]
    ELSE <<[id |-> 0, rate |-> Placeholder]>>

\* C3: the frozen edit of a session shows the items of the session's last
\* successful fetch with their rates replaced by the placeholder, whichever
\* ticks failed; no session ends without it because a tick failed.
C3_FrozenEditShowsLastSuccessfulFetch ==
    /\ ~panicked
    /\ \A t \in LiveTasks :
         tasks[t].frozen >= 1 =>
             tasks[t].lastEdit = FrozenView(tasks[t].cmd, tasks[t].lastGood)

(***************************************************************************)
(* Claims about main's loop (checked under Spec).                          *)
(***************************************************************************)
\* the step is a turn of main's loop that took a message of a sender that no
\* configured master equals
DropsMessage ==
    /\ nUpdates' = nUpdates + 1
    /\ lastUpdate'[1].isMsg
    /\ ~Contains(Masters, lastUpdate'[1].from)

\* C10: a turn of main's loop that takes a message of a sender who is not a
\* master starts no goroutine, calls neither the manager nor the platform,
\* leaves the chat of the notifier alone, and writes one log entry.
C10_UnauthorizedMessageOnlyLogged ==
    [][DropsMessage =>
          /\ tasks' = tasks
          /\ mgrCalls' = mgrCalls
          /\ botCalls' = botCalls
          /\ nextMsgID' = nextMsgID
          /\ chatID' = chatID
          /\ logs' = logs + 1]_vars

\* main took the message of a stranger: it left a log entry and nothing else
C10_Witness ==
    /\ nUpdates >= 1
    /\ lastUpdate[1].isMsg
    /\ lastUpdate[1].from = Eve
    /\ ~Contains(Masters, Eve)
    /\ logs = nUpdates
    /\ tasks = <<>>
    /\ botCalls = 0
    /\ mgrCalls = 0

(***************************************************************************)
(* Claims about the handlers of the commands (checked under SpecLive).     *)
(***************************************************************************)
\* C11: no message of a master and no failure of the manager or of the platform
\* ends the process: no goroutine panics.
C11_NoHandlerEndsTheProcess == ~panicked

(***************************************************************************)
(* Claims about the spellings of the commands (checked under SpecRoute).   *)
(***************************************************************************)
\* main took one message, of a master
Routed == nUpdates = 1 /\ lastUpdate[1].isMsg /\ Contains(Masters, lastUpdate[1].from)

\* the word w is the lower-case word f in some letter case
SameWord(w, f) ==
    /\ Len(w) = Len(f)
    /\ \A i \in 1..Len(f) : w[i] = f[i] \/ w[i] = ToUpperChar(f[i])

Blanks == {" ", "\t", "\n"}

\* the words of a text: what stands between its blanks
RECURSIVE FieldsFrom(_, _)
FieldsFrom(s, cur) ==
    IF s = <<>> THEN (IF cur = <<>> THEN <<>> ELSE <<cur>>)
    ELSE IF Head(s) \in Blanks
         THEN (IF cur = <<>> THEN <<>> ELSE <<cur>>) \o FieldsFrom(Tail(s), <<>>)
         ELSE FieldsFrom(Tail(s), Append(cur, Head(s)))

Fields(s) == FieldsFrom(s, <<>>)

\* C13 (as claimed): the command is the first word of the text and the other
\* words are its arguments, whatever blanks stand before and between them: the
\* message starts what its words, one space between them, start.
C13_BlanksOnlySeparateWords ==
    (Routed /\ Fields(lastUpdate[1].text) # <<>>) =>
        LET plain == Dispatch([lastUpdate[1] EXCEPT !.text = Join(Fields(@))]) IN
        /\ Len(tasks) = 1
        /\ tasks[1].cmd = plain.cmd
        /\ tasks[1].tokens = plain.tokens

\* every spelling of a command: the forms of the commands that have an alias,
\* and del, deldata, help and version with and without "/"
Accepted ==
    UNION { Forms(CommandTable[k]) : k \in 1..Len(CommandTable) }
        \cup UNION { {w, <<"/">> \o w} :
                        w \in { <<"d", "e", "l">>, <<"d", "e", "l", "d", "a", "t", "a">>,
                                <<"h", "e", "l", "p">>,
                                <<"v", "e", "r", "s", "i", "o", "n">> } }

\* the first token of the text is there and spells no command
Unknown(txt) ==
    LET w == Split(txt)[1] IN
    /\ w # <<>>
    /\ \A f \in Accepted : ~SameWord(w, f)

\* C14: the goroutine of a message whose first token spells no command passes
\* exactly one message to send, the "No such command" text, for the sender's
\* chat, and never calls the manager.
C14_UnknownCommandGetsOneFixedReply ==
    \A t \in 1..Len(tasks) :
        Unknown(tasks[t].text) =>
            /\ tasks[t].cmd = "default"
            /\ tasks[t].chat = lastUpdate[1].chat
            /\ tasks[t].queries = 0
            /\ mgrCalls = 0
            /\ Len(tasks) = 1
            /\ tasks[t].pc \in {"start", "done"}
            /\ tasks[t].pc = "start" => tasks[t].out = <<>> /\ botCalls = 0
            /\ tasks[t].pc = "done" =>
                   /\ Len(tasks[t].out) = 1
                   /\ tasks[t].out[1].tag = "nosuch"
                   /\ tasks[t].replies = 1
                   /\ botCalls = 2

C14_Witness ==
    /\ Len(tasks) = 1
    /\ tasks[1].text = <<"n", "o", "p", "e">>
    /\ tasks[1].pc = "done"
    /\ tasks[1].out = <<Say("nosuch", <<>>, 1)>>
    /\ mgrCalls = 0

\* the goroutine started for a message with an empty text
Received == { t \in 1..Len(tasks) : t = 1 /\ lastUpdate[1].text = <<>> }

\* C15: the goroutine of an empty text with a document either fails to fetch
\* the link and passes one "receiver" message to send, without a call of the
\* manager, or calls the manager's add once, with the link, and passes one
\* message about it to send; without a document it calls and sends nothing.
C15_DocumentIsAddedOnceOrReported ==
    \A t \in Received :
        LET task == tasks[t] IN
        /\ task.cmd = "receiveTorrent"
        /\ Len(tasks) = 1
        /\ mgrCalls = task.queries
        /\ ~task.doc => task.out = <<>> /\ task.queries = 0 /\ botCalls = 0
        /\ task.pc # "done" => task.out = <<>> /\ task.queries = 0
        /\ task.pc = "urls" => task.tokens = <<Link>>
        /\ (task.doc /\ task.pc = "done") =>
               /\ Len(task.out) = 1
               /\ task.replies = 1
               /\ \/ task.out[1].tag = "receiver" /\ task.queries = 0
                  \/ /\ task.out[1].tag \in {"added", "error", "erroradding"}
                     /\ task.out[1].arg = Link
                     /\ task.queries = 1

C15_Witness ==
    /\ Received = {1}
    /\ tasks[1].doc
    /\ tasks[1].pc = "done"
    /\ tasks[1].out = <<Say("added", Link, 1)>>
    /\ mgrCalls = 1

\* C18: the client's sort method changes only in a step of a sort goroutine;
\* latest, which orders its own slice by age, and every tick of a live session
\* leave it as it was.
C18_OnlySortWritesTheSortMethod ==
    [][sortMethod' # sortMethod =>
          \E t \in 1..Len(tasks) :
              /\ tasks[t].cmd = "sort"
              /\ tasks[t].pc = "start"
              /\ tasks'[t].pc = "done"]_vars

C18_Witness ==
    /\ Len(tasks) = 1
    /\ tasks[1].cmd = "latest"
    /\ tasks[1].pc = "done"
    /\ tasks[1].view = <<2, 1>>
    /\ sortMethod = SortID

\* C19: for an id the manager does not know, info passes exactly one "Can't
\* find a torrent with an ID of <id>" message to send and starts no goroutine
\* that edits it: `info 9`, an id no collection holds, ends with that one
\* message and no live session.
C19_UnknownIdGetsOneReplyAndNoSession ==
    /\ \A t \in 1..Len(tasks) : \A k \in 1..Len(tasks[t].out) :
           LET said == tasks[t].out[k] IN
           (tasks[t].cmd = "info" /\ said.tag = "cantfind") =>
               /\ Cardinality({ j \in 1..Len(tasks[t].out) :
                                    tasks[t].out[j].arg = said.arg }) = 1
               /\ \A u \in 1..Len(tasks) :
                      tasks[u].cmd = "infoLive" =>
                          /\ tasks[u].tid # Atoi(said.arg).val
                          /\ said.msg # 0 => tasks[u].msgID # said.msg
    /\ (Len(tasks) >= 1 /\ tasks[1].text = <<"i", "n", " ", "9">>) =>
           /\ Len(tasks) = 1
           /\ tasks[1].edits = 0 /\ tasks[1].frozen = 0 /\ ~tasks[1].live
           /\ tasks[1].pc = "done" =>
                  /\ Len(tasks[1].out) = 1
                  /\ tasks[1].out[1].tag = "cantfind"
                  /\ tasks[1].out[1].arg = <<"9">>
                  /\ tasks[1].replies = 1

C19_Witness ==
    /\ Len(tasks) = 1
    /\ tasks[1].text = <<"i", "n", " ", "9">>
    /\ tasks[1].pc = "done"
    /\ tasks[1].out = <<Say("cantfind", <<"9">>, 1)>>
    /\ tasks[1].queries = 1
    /\ ~NoLive

\* the commands that take numbers
FirstOnly == {"head", "tail", "latest"}

Looping == {"info", "stop", "start", "check", "del", "deldata"}

\* the arguments of the message a goroutine was started for
ArgsOf(task) == Tail(Split(task.text))

\* stop, start or check with "all" in the first place
AllForm(task) ==
    /\ task.cmd \in {"stop", "start", "check"}
    /\ ArgsOf(task) # <<>>
    /\ ArgsOf(task)[1] = All

\* how many of its arguments the goroutine has gone through: head, tail and
\* latest read the first one only, the others one per turn of their loop
ReadSoFar(task) ==
    IF task.cmd \in FirstOnly \/ AllForm(task)
    THEN IF task.pc = "start" \/ ArgsOf(task) = <<>> THEN 0 ELSE 1
    ELSE Len(ArgsOf(task)) - Len(task.tokens)

\* the calls of the manager one number is worth
CallsPerNumber(cmd) ==
    IF cmd \in {"stop", "start", "check"} THEN 2
    ELSE IF cmd \in {"head", "tail"} THEN 1 + duration
    ELSE 1

\* every argument read that is no number was answered by an error message of
\* the command, and the manager was called for the numbers only (head, tail
\* and latest without an argument take their default number)
Refused(task) ==
    LET args == ArgsOf(task)
        read == 1..ReadSoFar(task)
        numbers == { k \in read : Atoi(args[k]).ok }
    IN  /\ \A k \in read \ numbers :
               /\ k <= Len(task.out)
               /\ task.out[k].tag = "notnumber"
               /\ task.cmd \in Looping => task.out[k].arg = args[k]
        /\ task.queries <= CallsPerNumber(task.cmd) *
                                (IF args = <<>> THEN 1 ELSE Cardinality(numbers))
        /\ (read # {} /\ numbers = {}) => ~task.live

\* nothing but the end of a live session of info ends the process
RefusalEndsNothing == (\A u \in 1..Len(tasks) : tasks[u].cmd # "infoLive") => ~panicked

\* C20 (as claimed): for head, tail, latest, info, stop, start, check, del and
\* deldata every argument that is no number gets an error message of the
\* command and no call of the manager.
C20_NonNumberIsRefused ==
    \A t \in 1..Len(tasks) :
        tasks[t].cmd \in FirstOnly \cup Looping => Refused(tasks[t]) /\ RefusalEndsNothing

\* C20 (amended): the same, but for "all" as the first argument of stop, start
\* and check, which is no number and makes one call of the manager for all the
\* torrents, answered by one message.
C20_NonNumberButAllIsRefused ==
    \A t \in 1..Len(tasks) :
        LET task == tasks[t] IN
        task.cmd \in FirstOnly \cup Looping =>
            /\ RefusalEndsNothing
            /\ ~AllForm(task) => Refused(task)
            /\ (AllForm(task) /\ task.pc = "done") =>
                   /\ Len(task.out) = 1
                   /\ task.out[1].tag \in {"all", "error"}
                   /\ task.queries = 1

C20_Witness ==
    /\ Len(tasks) = 1
    /\ tasks[1].text = <<"s", "p", " ", "x", " ", "1">>
    /\ tasks[1].pc = "done"
    /\ Len(tasks[1].out) = 2
    /\ tasks[1].out[1] = Say("notnumber", <<"x">>, 1)
    /\ tasks[1].out[2].tag = "status"
    /\ tasks[1].queries = 2
    /\ ~panicked

\* the commands that take several items
Batch == {"add", "info", "stop", "start", "check", "del", "deldata"}

\* C21: a goroutine of add, info, stop, start, check, del or deldata that has
\* returned has passed one message to send for every argument of its message,
\* in their order, whatever failed on the way.
C21_EveryItemGetsItsReply ==
    \A t \in 1..Len(tasks) :
        LET task == tasks[t]
            args == ArgsOf(task)
        IN  (task.cmd \in Batch /\ task.pc = "done" /\ args # <<>> /\ ~AllForm(task)) =>
                /\ Len(task.out) = Len(args)
                /\ \A k \in 1..Len(args) : task.out[k].arg = args[k]

\* the commands that render the torrents or the statistics of the manager
Rendering == {"list", "head", "tail", "downs", "seeding", "paused", "checking",
              "active", "errors", "trackers", "search", "latest", "stats", "speed",
              "count"}

\* C22: a goroutine of a rendering command whose first query of the manager
\* failed has passed one message to send, the one with the error, and has
\* returned: no list, no live loop, no edit.
C22_FailedFirstQueryGetsOneReply ==
    \A t \in 1..Len(tasks) :
        LET task == tasks[t] IN
        (task.cmd \in Rendering /\ task.failed) =>
            /\ task.pc = "done"
            /\ task.out = <<Say("error", <<>>, task.out[1].msg)>>
            /\ task.replies = 1
            /\ task.queries = 1
            /\ task.view = <<>>
            /\ ~task.live
            /\ task.edits = 0 /\ task.frozen = 0 /\ task.i = 0
            /\ Len(tasks) = 1

\* the same for each command: it is reached for every one of them
C22_Witness ==
    /\ Len(tasks) = 1
    /\ tasks[1].cmd = "speed"
    /\ tasks[1].failed
    /\ tasks[1].pc = "done"
    /\ tasks[1].out = <<Say("error", <<>>, 1)>>
    /\ ~NoLive

FailedFirstQueryOf(cmd) ==
    \E t \in 1..Len(tasks) : tasks[t].cmd = cmd /\ tasks[t].failed

\* the commands that go live after their first render
LiveCapable == {"head", "tail", "active", "info", "speed"}

\* C23: a goroutine whose first render had no torrent to show has passed one
\* message to send, the one that says so, and has returned: no list, no live
\* loop, no edit.
C23_NothingToShowGetsOneReply ==
    \A t \in 1..Len(tasks) :
        LET task == tasks[t] IN
        task.nothing =>
            /\ task.pc = "done"
            /\ Len(task.out) = 1
            /\ task.out[1].tag = "none"
            /\ task.out[1].arg # <<>> => task.cmd = "list" /\ task.out[1].arg = task.tokens[1]
            /\ task.replies = 1
            /\ task.view = <<>>
            /\ ~task.failed
            /\ ~task.live
            /\ task.edits = 0 /\ task.frozen = 0 /\ task.i = 0
            /\ Len(tasks) = 1

C23_Witness ==
    /\ Len(tasks) = 1
    /\ tasks[1].cmd = "active"
    /\ tasks[1].nothing
    /\ tasks[1].pc = "done"
    /\ tasks[1].out = <<Say("none", <<>>, 1)>>
    /\ ~NoLive

NothingToShowOf(cmd) ==
    \E t \in 1..Len(tasks) : tasks[t].cmd = cmd /\ tasks[t].nothing

\* C24: with NoLive set no goroutine enters a live loop and no edit is issued:
\* head, tail, active and speed return after their first message, info after
\* the first torrent it has shown, and the platform is called for those
\* messages only.
C24_NoLiveIssuesNoEdit ==
    NoLive =>
        /\ \A t \in 1..Len(tasks) :
               LET task == tasks[t] IN
               /\ task.cmd # "infoLive"
               /\ ~task.live /\ task.pc # "live"
               /\ task.edits = 0 /\ task.frozen = 0 /\ task.i = 0
               /\ task.lastEdit = <<>>
               /\ (task.cmd \in LiveCapable \ {"info"} /\ task.pc = "done") =>
                      Len(task.out) = 1 /\ task.replies = 1
               /\ task.cmd = "info" =>
                      Cardinality({ k \in 1..Len(task.out) : task.out[k].tag = "info" }) <= 1
               /\ task.cmd \in LiveCapable => botCalls = 2 * task.replies
        /\ Len(tasks) <= 1

C24_Witness ==
    /\ NoLive
    /\ Len(tasks) = 1
    /\ tasks[1].cmd = "head"
    /\ tasks[1].pc = "done"
    /\ Len(tasks[1].out) = 1
    /\ tasks[1].out[1].tag = "render"
    /\ tasks[1].out[1].msg = 1
    /\ botCalls = 2

\* one message for every id of `info`, in the order of the ids
OnePerId(task) ==
    LET args == ArgsOf(task) IN
    /\ Len(task.out) = Len(args)
    /\ \A k \in 1..Len(args) :
           /\ task.out[k].arg = args[k]
           /\ task.out[k].tag \in {"info", "cantfind", "notnumber"}

\* C25: an info goroutine that has returned has passed one message to send for
\* every id of its message, in the order of the ids, with NoLive set or not.
C25_InfoRepliesOncePerId ==
    \A t \in 1..Len(tasks) :
        (tasks[t].cmd = "info" /\ tasks[t].pc = "done" /\ ArgsOf(tasks[t]) # <<>>) =>
            OnePerId(tasks[t])

\* it does when the live loops are on
InfoRepliesOncePerIdWhenLive ==
    \A t \in 1..Len(tasks) :
        (tasks[t].cmd = "info" /\ tasks[t].pc = "done" /\ ArgsOf(tasks[t]) # <<>>
            /\ ~NoLive) => OnePerId(tasks[t])

\* the messages a goroutine has sent or edited
Calls(task) == Len(task.out) + task.edits + task.frozen

\* C26 (as claimed): the sends and edits of one command are issued one after
\* another: while one goroutine of the command has a call to issue, no other
\* has, so info sends for a later id only when the edits of the earlier ids
\* are over.
C26_OneCallAtATimeInACommand ==
    \A t, u \in 1..Len(tasks) :
        t # u => tasks[t].pc = "done" \/ tasks[u].pc = "done"

\* C26 (amended): every goroutine issues its own sends and edits one at a
\* time and in program order: the sends first (those of info in the order of
\* its ids), then the edits of the live loop, then the edit with the dashes
\* when the loop is over.  The goroutines info starts for its ids run beside
\* it and beside each other.
C26_GoroutineCallsInProgramOrder ==
    [][/\ \A t \in 1..Len(tasks) :
            LET was == tasks[t]
                is == tasks'[t]
            IN  /\ Calls(is) - Calls(was) \in {0, 1}
                /\ Len(is.out) > Len(was.out) => was.edits = 0 /\ was.frozen = 0
                /\ is.edits > was.edits =>
                       /\ was.live /\ was.frozen = 0 /\ was.i < duration
                       /\ was.cmd = "infoLive" \/ Len(was.out) = 1
                /\ is.frozen > was.frozen =>
                       was.live /\ was.frozen = 0 /\ was.i = duration
                /\ (is.cmd = "info" /\ ArgsOf(is) # <<>>) =>
                       /\ Len(is.out) <= Len(ArgsOf(is))
                       /\ \A k \in 1..Len(is.out) : is.out[k].arg = ArgsOf(is)[k]
       /\ \A t, u \in 1..Len(tasks) :
            (Calls(tasks'[t]) # Calls(tasks[t]) /\ Calls(tasks'[u]) # Calls(tasks[u]))
                => t = u]_vars

\* info has sent for its second id after the goroutine of the first id has
\* edited, and that goroutine has edits left
C26_Witness ==
    /\ Len(tasks) = 3
    /\ tasks[1].cmd = "info"
    /\ tasks[1].pc = "done"
    /\ Len(tasks[1].out) = 2
    /\ tasks[2].edits = 1 /\ tasks[2].pc = "live"
    /\ tasks[3].edits = 0 /\ tasks[3].pc = "live"
    /\ tasks[2].msgID # tasks[3].msgID

\* the goroutines that still have edits to issue
Editing == { t \in 1..Len(tasks) : tasks[t].live /\ tasks[t].pc = "live" }

\* C27: no two goroutines that still have edits to issue edit the same
\* message: their pairs of chat and message id differ, also when a first send
\* failed.
C27_LiveSessionsEditDistinctMessages ==
    \A t, u \in Editing :
        t # u => <<tasks[t].chat, tasks[t].msgID>> # <<tasks[u].chat, tasks[u].msgID>>

\* they differ when the first sends went through
SessionsOfSentMessagesAreDistinct ==
    \A t, u \in Editing :
        (t # u /\ tasks[t].msgID # 0 /\ tasks[u].msgID # 0) =>
            <<tasks[t].chat, tasks[t].msgID>> # <<tasks[u].chat, tasks[u].msgID>>

\* what a live session holds for itself: its turn, the message it edits, the
\* number of torrents or the torrent it shows, the chat
Held(task) == <<task.i, task.msgID, task.n, task.tid, task.chat>>

\* no step changes what two sessions hold
OneSessionSteps ==
    \A t, u \in LiveTasks :
        (t # u /\ Held(tasks'[t]) # Held(tasks[t])) => Held(tasks'[u]) = Held(tasks[u])

\* C28: live sessions do not touch each other: a step changes what one session
\* holds at most, and no step keeps another session from the turns it has
\* left.
C28_SessionsAreIndependent ==
    [][/\ OneSessionSteps
       /\ \A t \in LiveTasks :
              (tasks[t].pc = "live" /\ tasks[t].i < duration) => ~panicked']_vars

\* a step changes what one session holds at most
SessionsShareNoState == [][OneSessionSteps]_vars

\* where in the text chunk i starts
Offset(i) == Len(ConcatTexts(SubSeq(handed, 1, i - 1)))

\* every message handed to the platform is a piece of the text, and no piece
\* was handed twice
HandedOnce ==
    /\ \A i \in 1..Len(handed) :
           handed[i].text = Slice(orig, Offset(i), Offset(i) + Len(handed[i].text))
    /\ \A i, j \in 1..Len(handed) : i < j => Offset(i) # Offset(j)

\* a call of the platform failed
SomeSendFailed == \E i \in 1..Len(handed) : handed[i].id = 0

\* C29: when a call of the platform failed, the chunk is not handed again,
\* nothing but the chunks of the text is handed, and the chunks after it are
\* handed once each: send goes through the whole text.
C29_FailedChunkIsNotRetriedAndTheRestIsSent ==
    SomeSendFailed =>
        /\ HandedOnce
        /\ sendPc # "panic"
        /\ sendPc = "done" => ConcatTexts(handed) = orig

\* a send that returns has handed every chunk once, failed calls or not
ReturnedSendHandedEveryChunkOnce ==
    sendPc = "done" => HandedOnce /\ ConcatTexts(handed) = orig

\* C30: no message sent with markdown embeds a character that markdown
\* reserves: the names, the strings of the manager and the arguments of the
\* user it embeds have been through the table of mdReplacer.
C30_MarkdownEmbedsNoReservedCharacter ==
    \A t \in 1..Len(tasks) : \A k \in 1..Len(tasks[t].out) :
        LET said == tasks[t].out[k] IN
        Markdown(tasks[t].cmd, said.tag) =>
            \A j \in 1..Len(said.arg) : said.arg[j] \notin Reserved

\* the names in the lists of head, tail and active have been through it
RenderedNamesAreReplaced ==
    \A t \in 1..Len(tasks) : \A k \in 1..Len(tasks[t].out) :
        LET said == tasks[t].out[k] IN
        said.tag = "render" =>
            \A j \in 1..Len(said.arg) : said.arg[j] \notin Reserved

NamesAreRendered ==
    \E t \in 1..Len(tasks) : \E k \in 1..Len(tasks[t].out) :
        tasks[t].out[k].tag = "render" /\ tasks[t].out[k].arg = <<"n", "1", "-", "n", "2", "-">>

(***************************************************************************)
(* Rendering twice: main started two goroutines for the same command, the  *)
(* manager keeps one collection and no sort command arrives.  The commands *)
(* are those whose lists the model renders in full.                        *)
(***************************************************************************)
RenderTexts == {
    <<"l", "i">>,
    <<"l", "i", " ", "T", "1">>,
    <<"h", "e">>,
    <<"h", "e", " ", "1">>,
    <<"t", "a", " ", "1">>,
    <<"a", "c">>,
    <<"l", "a">>,
    <<"l", "a", " ", "1">>,
    <<"s", "e", " ", "n">>,
    <<"t", "r">>}

\* the orders an earlier sort command left in the client
RenderOrders ==
    { SetSort(f, r) : f \in {<<"i", "d">>, <<"s", "i", "z", "e">>}, r \in BOOLEAN }

RenderInit ==
    /\ FlagsInit
    /\ sortMethod \in RenderOrders
    /\ \E c \in Snapshots : mgr = {c}
    /\ \E u \in { x \in UpdatesOf(RenderTexts) : x.isMsg /\ IsMaster(x.from) } :
         /\ lastUpdate = <<u>>
         /\ tasks = <<Dispatch(u), Dispatch(u)>>
         /\ chatID = IF TransLogFile THEN u.chat ELSE 0
    /\ nUpdates = 2

RenderNext ==
    \/ \E t \in 1..Len(tasks) : HeadTailStart(t)
    \/ \E t \in 1..Len(tasks) : ActiveStart(t)
    \/ \E t \in 1..Len(tasks) : ListStart(t)
    \/ \E t \in 1..Len(tasks) : LatestStart(t)
    \/ \E t \in 1..Len(tasks) : SearchStart(t)
    \/ \E t \in 1..Len(tasks) : TrackersStart(t)
    \/ \E t \in 1..Len(tasks) : HeadTailTick(t)
    \/ \E t \in 1..Len(tasks) : ActiveTick(t)
    \/ \E t \in 1..Len(tasks) : ActiveFreeze(t)

SpecRender == RenderInit /\ [][RenderNext]_vars

\* the goroutines that rendered the collection: their query succeeded
HasRendered == { t \in 1..Len(tasks) : tasks[t].out # <<>> /\ ~tasks[t].failed }

\* what the first message of a goroutine says
FirstText(task) == <<task.out[1].tag, task.out[1].arg, task.view>>

SameRenders(cmds) ==
    /\ \A t1, t2 \in HasRendered :
         tasks[t1].cmd \in cmds =>
             /\ FirstText(tasks[t1]) = FirstText(tasks[t2])
             /\ (tasks[t1].edits > 0 /\ tasks[t2].edits > 0
                     /\ tasks[t1].frozen = 0 /\ tasks[t2].frozen = 0)
                 => tasks[t1].lastEdit = tasks[t2].lastEdit
    /\ \A t \in HasRendered :
         (tasks[t].cmd \in cmds /\ tasks[t].edits > 0 /\ tasks[t].frozen = 0)
             => RenderedNames(tasks[t].lastEdit) = tasks[t].out[1].arg

\* C31: two renders of the same collection under the same sort order, nothing
\* changing in between, give the same text, for every command that renders a
\* list, trackers among them (first replies and live edits alike)
C31_RenderingTwiceGivesTheSameText ==
    SameRenders({"list", "head", "tail", "active", "latest", "search", "trackers"})

\* the lists that are built by ranging over the slice of torrents are the same
\* every time
SliceListsRenderTheSame ==
    SameRenders({"list", "head", "tail", "active", "latest", "search"})

TwoListsRendered ==
    /\ Len(tasks) = 2
    /\ tasks[1].cmd = "list" /\ tasks[2].cmd = "list"
    /\ Len(tasks[1].view) = 2 /\ Len(tasks[2].view) = 2

(***************************************************************************)
(* The start of the process, part_000:170-293: the three init functions    *)
(* run one after the other before main.  The state after flag.Parse()      *)
(* (line 187) holds what the command line and the environment gave.        *)
(***************************************************************************)
\* the tokens a flag or the environment can hold: none, one character, more
Tokens == {<<>>, <<"k">>, <<"k", "1">>}

StartInit ==
    /\ flags \in UNION { [1..k -> Handles] : k \in 0..MaxMasters }
    /\ Masters = ParseMasters(flags)
    /\ authFrom = <<>> /\ authOK = FALSE /\ authDone = FALSE
    /\ BotToken \in Tokens
    /\ TT_BOTT \in Tokens
    /\ initPc = "flags" /\ usage = FALSE /\ notices = <<>>
    /\ NoLive = FALSE
    /\ TransLogFile \in BOOLEAN
    /\ sortMethod = SortID
    /\ logs = 0 /\ botCalls = 0 /\ mgrCalls = 0 /\ panicked = FALSE
    /\ orig = <<>> /\ text = <<>> /\ msgRuneCount = 0 /\ sendPc = "idle"
    /\ handed = <<>> /\ nextMsgID = 1 /\ ret = 0
    /\ mgr = { CollectionOf([k \in 1..MaxTorrents |-> "idle"], 1) }
    /\ chatID = 0 /\ nUpdates = 0 /\ lastUpdate = <<>> /\ tasks = <<>>

MandatoryMissing_TokenOnly(token, masters) == token = <<>>

\* lines 197-198: BotToken == "" || len(Masters) < 1
MandatoryMissing(token, masters) == token = <<>> \/ Len(masters) < 1

\* lines 189-207: the token of the environment when the flag gave none, the
\* two mandatory arguments, the "@" of the handles
CheckFlags ==
    LET token == IF BotToken = <<>> /\ Len(TT_BOTT) > 1 THEN TT_BOTT ELSE BotToken IN
    /\ initPc = "flags"
    /\ BotToken' = token
    /\ IF MandatoryMissing(token, Masters)
       THEN /\ usage' = TRUE                 \* lines 199-200
            /\ initPc' = "exit"              \* line 201: os.Exit(1)
            /\ UNCHANGED Masters
       ELSE /\ Masters' = StripMasters(Masters)
            /\ initPc' = "client"
            /\ UNCHANGED usage
    /\ UNCHANGED <<flags, authFrom, authOK, authDone, TT_BOTT, notices, sendVars, procVars>>

\* lines 264-272 and 275-293: transmission.New, then tgbotapi.NewBotAPI and
\* Bot.GetUpdatesChan; the process exits when one of them fails
InitCollaborator ==
    /\ initPc \in {"client", "telegram"}
    /\ \E ok \in BOOLEAN :
         initPc' = IF ~ok THEN "exit" ELSE IF initPc = "client" THEN "telegram" ELSE "main"
    /\ UNCHANGED <<BotToken, TT_BOTT, usage, notices, sendVars, authVars, procVars>>

\* main after the start: the updates carry one text
StartUpdates == UpdatesOf({<<"h", "e", "a", "d">>})

RouteStart == RouteFrom(StartUpdates)

StartNext == CheckFlags \/ InitCollaborator \/ RouteStart

SpecStart == StartInit /\ [][StartNext]_vars

\* C32: main takes an update only when a token and at least one -master were
\* given; when either is missing after the flags and the environment were
\* read, the process has printed the usage message and exited, and no update
\* was taken
C32_NoUpdateWithoutTokenAndMaster ==
    /\ nUpdates > 0 => (BotToken # <<>> /\ Len(flags) >= 1)
    /\ (initPc # "flags" /\ (BotToken = <<>> \/ Len(flags) < 1))
           => (initPc = "exit" /\ usage /\ nUpdates = 0)

C32_Witness ==
    /\ initPc = "exit"
    /\ usage
    /\ BotToken = <<"k", "1">>
    /\ TT_BOTT = <<"k", "1">>
    /\ flags = <<>>

\* with both given, main is reached and takes updates
StartedProcessTakesUpdates ==
    /\ initPc = "main"
    /\ nUpdates = 1
    /\ usage = FALSE

(***************************************************************************)
(* Claims about the number of items of head, tail and latest (SpecLive).   *)
(***************************************************************************)
\* the n a goroutine was asked for: its argument, 5 without one
Requested(task) == IF task.tokens = <<>> THEN 5 ELSE Atoi(task.tokens[1]).val

\* min(n, count) for n >= 1, count otherwise
Due(n, count) == IF n >= 1 THEN (IF n < count THEN n ELSE count) ELSE count

\* the blocks of the torrents of ts from place lo + 1 to place hi
BlocksOf(ts, lo, hi) == [k \in 1..(hi - lo) |-> Block(ts[lo + k])]

\* the goroutines of head and tail that hold the collection they sliced last:
\* a failed fetch and an empty one leave no torrents and slice nothing
Sliced ==
    { t \in 1..Len(tasks) :
          /\ tasks[t].cmd \in {"head", "tail"}
          /\ tasks[t].out # <<>> /\ tasks[t].out[1].tag = "render"
          /\ tasks[t].torrents # <<>> }

\* C33: the first render of head, tail and latest shows min(n, count) items for
\* n >= 1 (n is 5 without an argument) and all of them for n <= 0, head and
\* latest the first ones of their order and tail the last ones; and at the
\* first render and at every live re-render the slice taken lies within
\* 0..count
C33_HeadTailLatestShowTheDueItems ==
    /\ \A t \in Sliced :
         LET task == tasks[t]
             count == Len(task.torrents)
             lo == IF task.cmd = "head" THEN 0 ELSE count - task.n
             hi == IF task.cmd = "head" THEN task.n ELSE count
         IN  /\ 0 <= lo /\ lo <= hi /\ hi <= count
             /\ task.i = 0 =>
                  /\ task.n = Due(Requested(task), count)
                  /\ task.out[1].arg = RenderedNames(BlocksOf(task.torrents, lo, hi))
             /\ (task.i > 0 /\ task.edits > 0) =>
                  task.lastEdit = BlocksOf(task.torrents, lo, hi)
    /\ \A t \in 1..Len(tasks) :
         (tasks[t].cmd = "latest" /\ tasks[t].view # <<>>) =>
             \E ts \in mgr :
                 tasks[t].view =
                     Ids(SubSeq(SortAge(ts, TRUE), 1, Due(Requested(tasks[t]), Len(ts))))

C33_Witness ==
    /\ Len(tasks) = 1
    /\ 1 \in Sliced
    /\ tasks[1].cmd = "tail"
    /\ Requested(tasks[1]) = 1
    /\ Len(tasks[1].torrents) = 2
    /\ tasks[1].edits = 2
    /\ tasks[1].lastEdit = <<Block(tasks[1].torrents[2])>>

\* n <= 0 shows every torrent
NonPositiveShowsAll ==
    /\ Len(tasks) = 1
    /\ 1 \in Sliced
    /\ Requested(tasks[1]) = -1
    /\ tasks[1].n = 2

\* the goroutines of head and tail whose last tick edited the message
Rerendered == { t \in Sliced : tasks[t].i > 0 /\ tasks[t].edits > 0 }

\* C34: every live re-render of head n and tail n shows min(n, count) items
\* for the n requested at entry and the collection's size at that tick, also
\* when the collection was smaller before and has grown since
C34_RerenderShowsTheRequestedCount ==
    \A t \in Rerendered :
        Len(tasks[t].lastEdit) = Due(Requested(tasks[t]), Len(tasks[t].torrents))

\* a re-render never shows more than that: n only shrinks, lines 510-512 and
\* 591-593 overwrite it with the size of a smaller collection
RerenderShowsAtMostTheRequestedCount ==
    \A t \in Rerendered :
        /\ Len(tasks[t].lastEdit) = tasks[t].n
        /\ tasks[t].n <= Due(Requested(tasks[t]), Len(tasks[t].torrents))

\* C36: a sort without arguments passes the usage text to send, a sort whose
\* field is none of the ten passes "unkown sorting method", each exactly once,
\* and neither changes the client's order (`sort rev` alone names no field:
\* it is the case of C11)
C36_BadSortRepliesOnceAndKeepsTheOrder ==
    [][\A t \in 1..Len(tasks) :
          (/\ tasks[t].cmd = "sort" /\ tasks[t].pc = "start" /\ tasks'[t].pc = "done"
           /\ \/ ArgsOf(tasks[t]) = <<>>
              \/ ToLower(ArgsOf(tasks[t])[Len(ArgsOf(tasks[t]))]) \notin SortFields) =>
              /\ sortMethod' = sortMethod
              /\ tasks'[t].replies = 1
              /\ Len(tasks'[t].out) = 1
              /\ tasks'[t].out[1].tag =
                     (IF ArgsOf(tasks[t]) = <<>> THEN "usage" ELSE "unknown")
              /\ botCalls' = botCalls + 2]_vars

C36_Witness ==
    /\ Len(tasks) = 1
    /\ tasks[1].text = <<"s", "o", " ", "x">>
    /\ tasks[1].pc = "done"
    /\ tasks[1].out # <<>> /\ tasks[1].out[1].tag = "unknown"
    /\ sortMethod = SortID

SortUsageSent ==
    /\ Len(tasks) = 1
    /\ tasks[1].text = <<"s", "o">>
    /\ tasks[1].pc = "done"
    /\ tasks[1].out # <<>> /\ tasks[1].out[1].tag = "usage"

(***************************************************************************)
(* Claims about the token (SpecLive).                                      *)
(***************************************************************************)
\* the text s holds the text sub
Holds(s, sub) ==
    \E i \in 0..(Len(s) - Len(sub)) : SubSeq(s, i + 1, i + Len(sub)) = sub

\* C37: no message passed to send holds the bot token; in particular no reply
\* of add, started by receiveTorrent with the link of the file, holds it
C37_NoMessageHoldsTheToken ==
    \A t \in 1..Len(tasks) : \A k \in 1..Len(tasks[t].out) :
        ~Holds(Written(tasks[t].cmd, tasks[t].out[k]), BotToken)

\* the token goes out with "error adding" and with nothing else
OnlyErrorAddingHoldsTheToken ==
    \A t \in 1..Len(tasks) : \A k \in 1..Len(tasks[t].out) :
        Holds(Written(tasks[t].cmd, tasks[t].out[k]), BotToken) =>
            /\ tasks[t].cmd = "receiveTorrent"
            /\ tasks[t].out[k].tag = "erroradding"

FileAddedWithoutTheToken ==
    /\ Len(tasks) = 1
    /\ tasks[1].cmd = "receiveTorrent"
    /\ Len(tasks[1].out) = 1
    /\ tasks[1].out[1].tag = "added"
    /\ Written(tasks[1].cmd, tasks[1].out[1]) = <<>>

Init == ProcInit

Next == Route \/ HandlerNext

Spec == Init /\ [][Next]_vars

(***************************************************************************)
(* One message after another: main takes MaxQueued updates, the goroutines *)
(* it started run or block as they may.  Only main's loop is fair: a       *)
(* goroutine may wait for ever on the manager, on the platform or in its   *)
(* sleep.                                                                  *)
(***************************************************************************)
RouteQueued == RouteUpTo(RouterUpdates, MaxQueued)

NextQueued == RouteQueued \/ HandlerNext

SpecQueued == Init /\ [][NextQueued]_vars /\ WF_vars(RouteQueued)

\* C16: whatever the goroutines of the earlier messages do, block for ever
\* included, main takes every later update from the channel.
C16_LaterMessagesAreConsumed == <>(nUpdates = MaxQueued)

\* main itself never waits: it takes every update as long as the process lives
RouterGoesOnWhileAlive == <>(nUpdates = MaxQueued \/ panicked)

\* main can take the next update whatever the goroutines are at
RouterIsNeverHeld == (~panicked /\ nUpdates < MaxQueued) => ENABLED RouteQueued

(***************************************************************************)
(* sort and list, one message after the other: main starts a goroutine for *)
(* each, lines 345-346 and 318-319, and the two run as they may.           *)
(***************************************************************************)
SortRevSize == <<"s", "o", "r", "t", " ", "r", "e", "v", " ", "s", "i", "z", "e">>

SortSize == <<"s", "o", "r", "t", " ", "s", "i", "z", "e">>

SortTexts == {SortRevSize, SortSize, <<"s", "o", "r", "t", " ", "r", "e", "v">>,
              <<"l", "i", "s", "t">>}

SortedUpdates == UpdatesOf(SortTexts)

RouteSorted == RouteUpTo(SortedUpdates, MaxQueued)

NextSorted ==
    \/ RouteSorted
    \/ \E t \in 1..Len(tasks) : SortStart(t)
    \/ \E t \in 1..Len(tasks) : SortPanic(t)
    \/ \E t \in 1..Len(tasks) : ListStart(t)

SpecSorted == Init /\ [][NextSorted]_vars

\* C17: the list sent for a `list` that main took right after `sort rev size`
\* shows torrent 2 (size 50) before torrent 1 (size 10); right after
\* `sort size` it shows torrent 1 before torrent 2.
C17_ListFollowsTheSortBeforeIt ==
    \A j \in 2..Len(tasks) :
        (tasks[j].cmd = "list" /\ tasks[j].view # <<>>) =>
            /\ tasks[j - 1].text = SortRevSize => tasks[j].view = <<2, 1>>
            /\ tasks[j - 1].text = SortSize => tasks[j].view = <<1, 2>>

\* the list is in the order the client holds when list asks for the torrents
ListShowsTheClientOrder ==
    [][\A t \in 1..Len(tasks) :
          (tasks[t].view = <<>> /\ tasks'[t].view # <<>>) =>
              tasks'[t].view = Ids(Sorted(CHOOSE ts \in mgr : TRUE, sortMethod))]_vars

(***************************************************************************)
(* sort after sort: main starts a goroutine for every message, lines       *)
(* 345-346, and each writes the client's order when it runs.               *)
(***************************************************************************)
\* `so <field>` and `so rev <field>` for the ten fields, and two in capitals
SortingTexts ==
    { <<"s", "o", " ">> \o f : f \in SortFields }
        \cup { <<"s", "o", " ", "r", "e", "v", " ">> \o f : f \in SortFields }
        \cup { <<"S", "O", " ", "R", "E", "V", " ", "S", "i", "z", "e">>,
                <<"s", "o", " ", "N", "A", "M", "E">> }

\* the sorts that follow the first one
LaterSorts == { <<"s", "o", " ", "r", "a", "t", "i", "o">>,
                <<"s", "o", " ", "r", "e", "v", " ", "i", "d">>,
                <<"s", "o", " ", "N", "A", "M", "E">> }

SortingUpdates == UpdatesOf(SortingTexts)

LaterUpdates == UpdatesOf(LaterSorts)

RouteSorting ==
    RouteUpTo({ u \in (IF nUpdates = 0 THEN SortingUpdates ELSE LaterUpdates) :
                    u.isMsg /\ IsMaster(u.from) }, MaxQueued)

NextSorting ==
    \/ RouteSorting
    \/ \E t \in 1..Len(tasks) : SortStart(t)

SpecSorting == Init /\ [][NextSorting]_vars

\* the words after the command, the last of them the field
WordsOf(task) == Tail(Split(task.text))

RevGiven(task) == Len(WordsOf(task)) = 2 /\ ToLower(WordsOf(task)[1]) = <<"r", "e", "v">>

FieldGiven(task) == WordsOf(task)[Len(WordsOf(task))]

\* C35: a sort goroutine whose field is one of the ten, in any letter case,
\* with or without `rev` before it, sets the client's order to that field,
\* reversed exactly when `rev` was given, whatever the order was, and passes
\* one confirmation naming them to send; nothing else writes the order, so
\* after several sorts it is the one of the sort that wrote last
C35_SortSetsFieldAndDirection ==
    [][/\ \A t \in 1..Len(tasks) :
            (tasks[t].cmd = "sort" /\ tasks[t].pc = "start" /\ tasks'[t].pc = "done"
                 /\ ToLower(FieldGiven(tasks[t])) \in SortFields) =>
                /\ sortMethod' = [field |-> ToLower(FieldGiven(tasks[t])),
                                  rev |-> RevGiven(tasks[t])]
                /\ tasks'[t].replies = 1
                /\ Len(tasks'[t].out) = 1
                /\ tasks'[t].out[1].tag = "sorted"
                /\ tasks'[t].out[1].arg =
                       (IF RevGiven(tasks[t]) THEN <<"r", "e", "v", "e", "r", "s", "e", "d", " ">>
                        ELSE <<>>) \o FieldGiven(tasks[t])
       /\ sortMethod' # sortMethod =>
            \E t \in 1..Len(tasks) :
                tasks[t].cmd = "sort" /\ tasks[t].pc = "start" /\ tasks'[t].pc = "done"]_vars

\* two sorts ran, the second message's first: the order is the first one's
C35_Witness ==
    /\ Len(tasks) = 2
    /\ tasks[1].text = <<"S", "O", " ", "R", "E", "V", " ", "S", "i", "z", "e">>
    /\ tasks[2].text = <<"s", "o", " ", "r", "a", "t", "i", "o">>
    /\ tasks[1].pc = "done" /\ tasks[2].pc = "done"
    /\ sortMethod = [field |-> <<"s", "i", "z", "e">>, rev |-> TRUE]

\* every field and both directions are set by some sort
EveryOrderIsSet ==
    Len(tasks) = 2 /\ tasks[1].pc = "done" /\ tasks[2].pc = "done"
        /\ sortMethod = [field |-> <<"p", "r", "o", "g", "r", "e", "s", "s">>, rev |-> TRUE]

(***************************************************************************)
(* The completion notices, part_000:218-249 and 308-311.  With a log file  *)
(* of transmission given, init starts a goroutine that follows the file    *)
(* and sends a notice for every line that tells of a completed torrent,    *)
(* to the chat the global chatID names; main writes chatID.  The two       *)
(* goroutines share chatID without a lock or an atomic.                    *)
(***************************************************************************)
\* the notices followed
MaxNotices == 2

\* a master writes from two chats, a stranger from a third
NoticeUpdates ==
    { [isMsg |-> TRUE, from |-> Bob, chat |-> c, text |-> <<"h", "e", "l", "p">>, doc |-> FALSE] :
          c \in {10, 30} }
        \cup { [isMsg |-> TRUE, from |-> Eve, chat |-> 20, text |-> <<"h", "e", "l", "p">>,
                 doc |-> FALSE] }

RouteNotice == RouteUpTo(NoticeUpdates, MaxQueued)

\* lines 235 and 240: what the goroutine of init reads in chatID.  The read
\* races with the write of main (line 310); nothing orders the two, so the
\* read may return the value main wrote last or one chatID held before it:
\* zero, or the chat of an earlier message
ReadChatID ==
    {chatID} \cup (IF TransLogFile THEN {0} \cup { tasks[j].chat : j \in 1..Len(tasks) } ELSE {})

\* lines 232-241: a line with "Incomplete" to "Complete" came; no notice
\* while chatID reads zero
Notify ==
    /\ TransLogFile
    /\ initPc = "main"
    /\ ~panicked
    /\ Len(notices) < MaxNotices
    /\ \E c \in ReadChatID : \E ok \in BOOLEAN :
         /\ c # 0
         /\ notices' = Append(notices, c)
         /\ SendOnce(ok)
    /\ UNCHANGED <<BotToken, TT_BOTT, initPc, usage, authVars, mgr, sortMethod, NoLive,
                   TransLogFile, chatID, nUpdates, lastUpdate, tasks, logs, mgrCalls,
                   panicked, orig, text, msgRuneCount, sendPc, handed, ret>>

NextNotice == RouteNotice \/ Notify

SpecNotice == Init /\ [][NextNotice]_vars

\* C38: a notice is sent only after main took a message of a master, and it
\* goes to the chat of the last such message; the message of a stranger
\* leaves the chat of the notices as it was
C38_NoticeGoesToTheLastMastersChat ==
    [][/\ notices' # notices =>
            /\ Len(tasks) >= 1
            /\ notices'[Len(notices')] = tasks[Len(tasks)].chat
       /\ chatID' # chatID =>
            (lastUpdate'[1].isMsg /\ IsMaster(lastUpdate'[1].from))]_vars

\* a notice goes to a chat a master wrote from, never to a stranger's
NoticesGoToChatsOfMasters ==
    \A k \in 1..Len(notices) :
        \E j \in 1..Len(tasks) : notices[k] = tasks[j].chat

\* only the message of a master moves chatID, and to its own chat
OnlyMastersMoveTheNoticeChat ==
    [][chatID' # chatID =>
          /\ lastUpdate'[1].isMsg /\ IsMaster(lastUpdate'[1].from)
          /\ chatID' = lastUpdate'[1].chat]_vars

NoticeSentAfterTwoChats ==
    /\ Len(tasks) = 2
    /\ tasks[1].chat = 10 /\ tasks[2].chat = 30
    /\ notices = <<30, 30>>

=============================================================================
